---- MODULE Spec2Model ----
(***************************************************************************)
(* A model of the process handle (Popen), its stream plumbing and its      *)
(* communicator, as implemented in src/src/popen.rs, for the POSIX and the *)
(* Windows builds.  The OS primitives (modules posix and win32) are the    *)
(* environment: each fallible call may fail, a child terminates when it    *)
(* chooses to.                                                             *)
(***************************************************************************)
EXTENDS Integers, Sequences, FiniteSets, TLC

(* ------------------------------------------------------------------ *)
(* Bounds of the model.                                                *)
(* ------------------------------------------------------------------ *)

\* wait_timeout: the number of sleeps that fit before the deadline.
MaxPolls == 2

\* communicate_bytes: the longest input handed to the child.
MaxLen == 3

\* The capacity of an OS pipe buffer, in bytes.
PipeCap == 1

\* The most bytes the child writes to its stderr of its own accord.
MaxErrBytes == 2
MaxArgs == 2
MaxChars == 4
MaxDur == 500

(* ------------------------------------------------------------------ *)
(* Values.                                                             *)
(* ------------------------------------------------------------------ *)

Streams == {"stdin", "stdout", "stderr"}

\* enum Redirection
Redirection == {"None", "File", "Pipe", "Merge"}

Platforms == {"posix", "windows"}

\* enum ExitStatus, and Option<ExitStatus>::None
Exited(c) == <<"Exited", c>>
Signaled(s) == <<"Signaled", s>>
NoStatus == <<"None", 0>>

\* The exit codes a program that was exec'ed may end with.
ExitCodes == {0, 13, 127}

\* The OS error codes a failing dup2 / execvp may report in the child
\* (ENOENT, EACCES, a three-digit errno), and -1: no OS error code.
ExecErrnos == {2, 13, 105}
ChildErrors == ExecErrnos \cup {-1}

\* enum PopenError (and no error)
IoError(code) == <<"IoError", code>>
LogicError == <<"LogicError", 0>>
NoError == <<"NoError", 0>>

\* unix wait_timeout, in half milliseconds: Duration::new(0, 500_000), line
\* 322, and Duration::from_millis(100), line 333.
InitialDelay == 1
MaxDelay == 200

\* File descriptors / handles, by the role they were opened in.
NoFd == <<"none", "none">>
EF_R == <<"exec_fail_pipe", "0">>
EF_W == <<"exec_fail_pipe", "1">>
ParentEnd(s) == <<"parent_end", s>>
ChildEnd(s) == <<"child_end", s>>
FileOf(s) == <<"file", s>>
StdClone(s) == <<"clone_standard_stream", s>>

\* File::try_clone: a new descriptor for the open file that fd refers to.
DupRole(role) ==
    CASE role = "child_end" -> "dup_child_end"
      [] role = "file" -> "dup_file"
      [] role = "clone_standard_stream" -> "dup_clone_standard_stream"
      [] OTHER -> "dup"
TryClone(fd) == <<DupRole(fd[1]), fd[2]>>

\* The endpoint whose open file the descriptor fd shares: what it is a
\* try_clone of, or itself.
OpenFileOfSelf(fd) == fd
OpenFileOf(fd) ==
    CASE fd[1] = "dup_child_end" -> ChildEnd(fd[2])
      [] fd[1] = "dup_file" -> FileOf(fd[2])
      [] fd[1] = "dup_clone_standard_stream" -> StdClone(fd[2])
      [] OTHER -> fd

NoEnds == [s \in Streams |-> NoFd]

Range(f) == {f[x] : x \in DOMAIN f}

VARIABLES
    platform,      \* the build: cfg(unix) or cfg(windows)
    argv,          \* assemble_cmdline: its argument, as sequences of characters
    cmdline,       \* assemble_cmdline: the command line it returned
    delay,         \* unix wait_timeout: its local delay, in half milliseconds
    remaining,     \* unix wait_timeout: deadline - now, in half milliseconds
    sleeps,        \* unix wait_timeout: the calls of thread::sleep so far
    cfg,           \* PopenConfig: stream -> Redirection
    pc,            \* where the caller is
    pid,           \* Popen._pid: "None" or "Some"
    exit_status,   \* Popen.exit_status
    self_streams,  \* Popen.stdin / stdout / stderr: stream -> fd or NoFd
    handle,        \* ext_data.handle (windows): "None", "Some"
    handleOpen,    \* the OS process handle is open (windows)
    handleCloses,  \* the calls of CloseHandle on the process handle
    child_ends,    \* the child_ends tuple of start
    merge,         \* MergeKind of make_child_streams
    openFds,       \* descriptors open in the parent
    cloexec,       \* descriptors marked non-inheritable
    child,         \* "none", "forked", "running", "zombie", "reaped"
    childStatus,   \* the status the OS holds for the terminated child
    childFds,      \* descriptors the child holds
    efPipe,        \* bytes written to the exec-failure pipe
    execErr,       \* the error that made the child's do_exec fail, or 0
    sig,           \* the signal delivered to the child, or 0
    result,        \* what create returned
    ret,           \* what the last lifecycle call returned
    detached,      \* detach() was called
    osKill,        \* the last terminate / kill made its OS call
    osWait,        \* the last call invoked an OS wait primitive
    spun,          \* wait() went round its loop without effect
    polls,         \* wait_timeout: sleeps left before the deadline
    input_some,    \* communicate_bytes: input_data is Some
    input_data,    \* communicate_bytes: the bytes of input_data
    wpc,           \* where the thread calling communicate_bytes is
    rpc,           \* where the comm_read of stdout / stderr is
    written,       \* comm_write: bytes of input_data the pipe has taken
    pipebuf,       \* the bytes in flight in each pipe
    contents,      \* comm_read: the Vec read so far, per stream
    comm_result,   \* what communicate_bytes returned
    cpc,           \* where the child's program is
    cheld,         \* the child: bytes read from stdin, not yet echoed
    cerrLeft,      \* the child: bytes it has still to write to stderr
    cstdinEof,     \* the child: its read of stdin returned end of file
    cwrote,        \* the child: per open file, the <<fd, byte>> written to it
    tcfg,          \* concurrent creates: the PopenConfig of each thread
    tpc,           \* concurrent creates: where each thread is in start
    procFds,       \* concurrent creates: <<thread, fd>> open in the process
    procCloexec,   \* concurrent creates: the ones marked close-on-exec
    tchild,        \* concurrent creates: the child each thread forked
    tchildFds,     \* concurrent creates: <<thread, fd>> each child holds
    tchildMarks,   \* concurrent creates: the marks each child got at fork
    fpc            \* where the forked child is in start, statement by statement

concVars == <<tcfg, tpc, procFds, procCloexec, tchild, tchildFds, tchildMarks>>
cfgVars == <<platform, cfg, argv, cmdline, delay, remaining, sleeps, concVars,
             fpc>>
handleVars == <<pid, exit_status, self_streams, handle, handleOpen, handleCloses>>
fdVars == <<child_ends, merge, openFds, cloexec>>
childVars == <<child, childStatus, childFds, efPipe, execErr, sig>>
callVars == <<pc, result, ret, detached, osKill, osWait, spun, polls>>
comm == <<input_some, input_data, wpc, rpc, written, pipebuf, contents,
          comm_result, cpc, cheld, cerrLeft, cstdinEof, cwrote>>
vars == <<cfgVars, handleVars, fdVars, childVars, callVars, comm>>

(* ------------------------------------------------------------------ *)
(* format!("{}", error_code) and str::parse::<i32>.                    *)
(* ------------------------------------------------------------------ *)

DigitChars == <<"0", "1", "2", "3", "4", "5", "6", "7", "8", "9">>

RECURSIVE FormatNat(_)
FormatNat(n) ==
    IF n < 10 THEN <<DigitChars[n + 1]>>
    ELSE FormatNat(n \div 10) \o <<DigitChars[(n % 10) + 1]>>

\* The digits of n, least significant first.
RECURSIVE FormatNatReversed(_)
FormatNatReversed(n) ==
    IF n < 10 THEN <<DigitChars[n + 1]>>
    ELSE <<DigitChars[(n % 10) + 1]>> \o FormatNatReversed(n \div 10)

FormatI32Reversed(n) ==
    IF n < 0 THEN <<"-">> \o FormatNatReversed(-n) ELSE FormatNatReversed(n)
FormatI32(n) == IF n < 0 THEN <<"-">> \o FormatNat(-n) ELSE FormatNat(n)

IsDigit(c) == \E d \in 1..10 : DigitChars[d] = c
DigitVal(c) == (CHOOSE d \in 1..10 : DigitChars[d] = c) - 1

RECURSIVE ParseNat(_)
ParseNat(s) ==
    IF Len(s) = 0 THEN 0
    ELSE 10 * ParseNat(SubSeq(s, 1, Len(s) - 1)) + DigitVal(s[Len(s)])

ParseOk(s) ==
    LET body == IF Len(s) > 0 /\ s[1] \in {"-", "+"} THEN Tail(s) ELSE s
    IN  Len(body) > 0 /\ \A i \in 1..Len(body) : IsDigit(body[i])

ParseI32(s) ==
    IF s[1] = "-" THEN 0 - ParseNat(Tail(s))
    ELSE IF s[1] = "+" THEN ParseNat(Tail(s))
    ELSE ParseNat(s)

(* ------------------------------------------------------------------ *)
(* Popen::create and PopenOs::start.                                   *)
(* ------------------------------------------------------------------ *)

Outputs == {"stdout", "stderr"}

NoOutput == [some |-> FALSE, bytes |-> <<>>]

\* communicate_bytes has not been called, and the child's program is one
\* that reads and writes nothing.
CommIdle ==
    /\ input_some = FALSE
    /\ input_data = <<>>
    /\ wpc = "idle"
    /\ rpc = [s \in Outputs |-> "none"]
    /\ written = 0
    /\ pipebuf = [s \in Streams |-> <<>>]
    /\ contents = [s \in Outputs |-> <<>>]
    /\ comm_result = [kind |-> "Pending", out |-> NoOutput, err |-> NoOutput]
    /\ cpc = "idle"
    /\ cheld = <<>>
    /\ cerrLeft = 0
    /\ cstdinEof = FALSE
    /\ cwrote = [s \in Outputs |-> <<>>]

\* The two threads that create handles concurrently.
Threads == {1, 2}

\* Where a thread is in start: a step and the stream it is about.
At(step, s) == <<step, s>>

\* No thread is creating a handle.
ConcIdle ==
    /\ tcfg = [t \in Threads |-> [s \in Streams |-> "None"]]
    /\ tpc = [t \in Threads |-> At("idle", "none")]
    /\ procFds = {}
    /\ procCloexec = {}
    /\ tchild = [t \in Threads |-> "none"]
    /\ tchildFds = [t \in Threads |-> {}]
    /\ tchildMarks = [t \in Threads |-> {}]
    /\ fpc = "none"

\* Popen::create, lines 70-77: the fresh instance, before start runs.  The
\* File targets of the config are open in the caller.
Init ==
    /\ platform \in Platforms
    /\ argv = <<>>
    /\ cmdline = <<>>
    /\ delay = InitialDelay
    /\ remaining = 0
    /\ sleeps = 0
    /\ ConcIdle
    /\ cfg \in [Streams -> Redirection]
    /\ pc = "new"
    /\ pid = "None"
    /\ exit_status = NoStatus
    /\ self_streams = NoEnds
    /\ handle = "None"
    /\ handleOpen = FALSE
    /\ handleCloses = 0
    /\ child_ends = NoEnds
    /\ merge = "None"
    /\ openFds = {FileOf(s) : s \in {t \in Streams : cfg[t] = "File"}}
    /\ cloexec = {}
    /\ child = "none"
    /\ childStatus = NoStatus
    /\ childFds = {}
    /\ efPipe = <<>>
    /\ execErr = 0
    /\ sig = 0
    /\ result = [kind |-> "Pending", err |-> NoError]
    /\ ret = [op |-> "none", kind |-> "none", st |-> NoStatus]
    /\ detached = FALSE
    /\ osKill = FALSE
    /\ osWait = FALSE
    /\ spun = FALSE
    /\ polls = 0
    /\ CommIdle

\* The descriptors the instance itself owns: its stdin, stdout and stderr.
StoredEnds == Range(self_streams) \ {NoFd}

\* start returns Err(err) through the ? of create: every File owned by a
\* local or a parameter of start and make_child_streams is dropped, and the
\* instance goes out of scope in create (Drop for Popen runs next).
StartFails(err) ==
    /\ result' = [kind |-> "Failing", err |-> err]
    /\ openFds' = openFds \cap StoredEnds
    /\ child_ends' = NoEnds
    /\ pc' = "create_drop"

\* unix start, line 271: posix::pipe()?
ExecFailPipe ==
    /\ pc = "new"
    /\ platform = "posix"
    /\ \E ok \in BOOLEAN :
         IF ok
         THEN /\ openFds' = openFds \cup {EF_R, EF_W}
              /\ pc' = "exec_fail_pipe"
              /\ UNCHANGED <<result, child_ends>>
         ELSE StartFails(IoError(24))
    /\ UNCHANGED <<cfgVars, handleVars, merge, cloexec, childVars, ret,
                   detached, osKill, osWait, spun, polls, comm>>

\* unix start, lines 272-273: both ends of the pipe are made close-on-exec.
ExecFailPipeCloexec ==
    /\ pc = "exec_fail_pipe"
    /\ \E failing \in {0, 1, 2} :
         IF failing = 0
         THEN /\ cloexec' = cloexec \cup {EF_R, EF_W}
              /\ pc' = "stdin"
              /\ UNCHANGED <<result, child_ends, openFds>>
         ELSE /\ cloexec' = IF failing = 2 THEN cloexec \cup {EF_R} ELSE cloexec
              /\ StartFails(IoError(9))
    /\ UNCHANGED <<cfgVars, handleVars, merge, childVars, ret,
                   detached, osKill, osWait, spun, polls, comm>>

\* windows start begins with make_child_streams, line 444.
WinStart ==
    /\ pc = "new"
    /\ platform = "windows"
    /\ pc' = "stdin"
    /\ UNCHANGED <<cfgVars, handleVars, fdVars, childVars, result, ret,
                   detached, osKill, osWait, spun, polls, comm>>

\* os::set_inheritable(f, inheritable): what it does to the mark of f.
\* On unix making a descriptor inheritable is a no-op.
set_inheritable_noop(marks, f, inheritable) == marks
set_inheritable(marks, f, inheritable) ==
    IF inheritable
    THEN IF platform = "windows" THEN marks \ {f} ELSE marks
    ELSE marks \cup {f}

\* Whether prepare_file can fail: only windows makes a system call.
PrepareFileCanFail == platform = "windows"

NextStream(s) ==
    CASE s = "stdin" -> "stdout"
      [] s = "stdout" -> "stderr"
      [] s = "stderr" -> "merge"

\* prepare_pipe, line 93: what is stored in the handle's field for s.
store_parent_end_dropped(s) == NoFd
store_parent_end(s) == ParentEnd(s)

\* make_child_streams, lines 118 and 124: the MergeKind assigned when the
\* Redirection of s is Merge; the assignment overwrites an earlier one.
merge_kind_first(s, prev) ==
    IF prev # "None" THEN prev
    ELSE IF s = "stdout" THEN "ErrToOut" ELSE "OutToErr"
merge_kind(s, prev) == IF s = "stdout" THEN "ErrToOut" ELSE "OutToErr"

\* make_child_streams, lines 107-126: the match on one stream's Redirection.
MakeChildStream(s) ==
    /\ pc = s
    /\ CASE cfg[s] = "Pipe" ->
              \* prepare_pipe: make_pipe()?, set_inheritable(parent_end, false)?
              \E outcome \in {"ok", "make_pipe", "set_inheritable"} :
                IF outcome = "ok"
                THEN /\ openFds' = openFds \cup {ParentEnd(s), ChildEnd(s)}
                     /\ cloexec' = set_inheritable(cloexec, ParentEnd(s), FALSE)
                     /\ self_streams' = [self_streams EXCEPT
                                            ![s] = store_parent_end(s)]
                     /\ child_ends' = [child_ends EXCEPT ![s] = ChildEnd(s)]
                     /\ pc' = NextStream(s)
                     /\ UNCHANGED <<merge, result>>
                ELSE /\ StartFails(IoError(24))
                     /\ UNCHANGED <<merge, cloexec, self_streams>>
         [] cfg[s] = "File" ->
              \E ok \in {TRUE} \cup {~PrepareFileCanFail} :
                IF ok
                THEN /\ cloexec' = set_inheritable(cloexec, FileOf(s), TRUE)
                     /\ child_ends' = [child_ends EXCEPT ![s] = FileOf(s)]
                     /\ pc' = NextStream(s)
                     /\ UNCHANGED <<merge, result, openFds, self_streams>>
                ELSE /\ StartFails(IoError(6))
                     /\ UNCHANGED <<merge, cloexec, self_streams>>
         [] cfg[s] = "Merge" ->
              IF s = "stdin"
              THEN /\ StartFails(LogicError)
                   /\ UNCHANGED <<merge, cloexec, self_streams>>
              ELSE /\ merge' = merge_kind(s, merge)
                   /\ pc' = NextStream(s)
                   /\ UNCHANGED <<result, openFds, child_ends, cloexec,
                                  self_streams>>
         [] cfg[s] = "None" ->
              /\ pc' = NextStream(s)
              /\ UNCHANGED <<result, openFds, child_ends, cloexec, merge,
                             self_streams>>
    /\ UNCHANGED <<cfgVars, pid, exit_status, handle, handleOpen, handleCloses, childVars,
                   ret, detached, osKill, osWait, spun, polls, comm>>

\* make_child_streams, lines 128-139: dup_child_stream fills the source slot
\* with a clone of the parent's stream when it is empty, and the merged slot
\* gets a try_clone of the source slot.
dup_child_stream_parent(child_stream, s) == StdClone(s)
dup_child_stream(child_stream, s) ==
    IF child_stream = NoFd THEN StdClone(s) ELSE child_stream

ResolveMerge ==
    /\ pc = "merge"
    /\ IF merge = "None"
       THEN /\ pc' = "spawn"
            /\ UNCHANGED <<result, openFds, child_ends>>
       ELSE LET src == IF merge = "OutToErr" THEN "stdout" ELSE "stderr"
                dst == IF merge = "OutToErr" THEN "stderr" ELSE "stdout"
                cloned == child_ends[src] = NoFd
                srcFd == dup_child_stream(child_ends[src], src)
            IN  \E outcome \in {"ok", "try_clone"}
                      \cup (IF cloned THEN {"clone_standard_stream"} ELSE {}) :
                  IF outcome = "ok"
                  THEN /\ openFds' = openFds \cup {srcFd, TryClone(srcFd)}
                       /\ child_ends' =
                            [child_ends EXCEPT ![src] = srcFd,
                                               ![dst] = TryClone(srcFd)]
                       /\ pc' = "spawn"
                       /\ UNCHANGED result
                  ELSE StartFails(IoError(24))
    /\ UNCHANGED <<cfgVars, handleVars, merge, cloexec, childVars, ret,
                   detached, osKill, osWait, spun, polls, comm>>

\* The child ends handed to the spawn primitive.
GivenEnds == Range(child_ends) \ {NoFd}

\* The descriptors the parent closes once the child is spawned: child_ends
\* goes out of scope at line 291 (unix); CreateProcess takes the three Files
\* by value and drops them (windows, lines 449-452).
ChildEndsLeftOpen == {}
ChildEndsDropped == GivenEnds

\* unix start, lines 276-292, parent side: posix::fork()?, then the pid is
\* stored, the child_ends go out of scope and exec_fail_pipe.1 is dropped.
\* The child starts with a copy of every descriptor open at the fork.
Fork ==
    /\ pc = "spawn"
    /\ platform = "posix"
    /\ \E ok \in BOOLEAN :
         IF ok
         THEN /\ child' = "forked"
              /\ childFds' = openFds
              /\ pid' = "Some"
              /\ openFds' = openFds \ (ChildEndsDropped \cup {EF_W})
              /\ pc' = "read_exec_fail_pipe"
              /\ UNCHANGED <<result, child_ends>>
         ELSE /\ StartFails(IoError(11))
              /\ UNCHANGED <<child, childFds, pid>>
    /\ UNCHANGED <<cfgVars, exit_status, self_streams, handle, handleOpen, handleCloses,
                   merge, cloexec, childStatus, efPipe, execErr, sig, ret,
                   detached, osKill, osWait, spun, polls, comm>>

\* What the child writes to exec_fail_pipe.1 when do_exec fails with e.
ChildErrorReport(e) == FormatI32(e)

\* unix start, lines 277-289, and do_exec, in the child: exec_fail_pipe.0 is
\* dropped, the child ends are dup2'ed onto 0, 1 and 2 and dropped, and
\* execvp runs.  With e = 0 the exec succeeds and closes every close-on-exec
\* descriptor; otherwise a dup2 or the execvp failed with error e (-1: an
\* error without an OS code), the code is written to the pipe and the child
\* exits with 127.
ChildExec ==
    /\ child = "forked"
    /\ \E e \in ChildErrors \cup {0} :
         IF e = 0
         THEN /\ child' = "running"
              /\ childFds' = (childFds \ cloexec) \cup GivenEnds
              /\ UNCHANGED <<efPipe, execErr, childStatus>>
         ELSE /\ child' = "zombie"
              /\ childStatus' = Exited(127)
              /\ childFds' = {}
              /\ efPipe' = ChildErrorReport(e)
              /\ execErr' = e
    /\ UNCHANGED <<cfgVars, handleVars, fdVars, sig, callVars, comm>>

\* read_to_string on exec_fail_pipe.0 returns at end of file: when no
\* process holds the write end any more.
ExecFailPipeAtEof == EF_W \notin openFds /\ EF_W \notin childFds

\* unix start, lines 293-301: the error string is read and parsed.
ReadExecFailPipe ==
    /\ pc = "read_exec_fail_pipe"
    /\ ExecFailPipeAtEof
    /\ IF Len(efPipe) # 0
       THEN IF ParseOk(efPipe)
            THEN StartFails(IoError(ParseI32(efPipe)))
            ELSE /\ pc' = "panic"
                 /\ UNCHANGED <<result, openFds, child_ends>>
       ELSE /\ pc' = "live"
            /\ result' = [kind |-> "Ok", err |-> NoError]
            /\ openFds' = openFds \ {EF_R}
            /\ UNCHANGED child_ends
    /\ UNCHANGED <<cfgVars, handleVars, merge, cloexec, childVars, ret,
                   detached, osKill, osWait, spun, polls, comm>>

\* windows start, lines 445-455: ensure_child_stream fills every empty slot
\* with a clone of the parent's stream, the command line is assembled and
\* CreateProcess consumes the three child ends.
WinSpawn ==
    /\ pc = "spawn"
    /\ platform = "windows"
    /\ LET empty == {s \in Streams : child_ends[s] = NoFd}
           ensured == [s \in Streams |->
                         IF s \in empty THEN StdClone(s) ELSE child_ends[s]]
       IN  \E outcome \in {"ok", "assemble_cmdline", "CreateProcess"}
                 \cup (IF empty = {} THEN {} ELSE {"ensure_child_stream"}) :
             IF outcome = "ok"
             THEN /\ child_ends' = ensured
                  /\ childFds' = (openFds \ cloexec) \cup Range(ensured)
                  /\ openFds' = openFds \ ChildEndsDropped
                  /\ child' = "running"
                  /\ pid' = "Some"
                  /\ handle' = "Some"
                  /\ handleOpen' = TRUE
                  /\ UNCHANGED handleCloses
                  /\ pc' = "live"
                  /\ result' = [kind |-> "Ok", err |-> NoError]
             ELSE /\ StartFails(IoError(IF outcome = "assemble_cmdline"
                                        THEN 161 ELSE 2))
                  /\ UNCHANGED <<child, childFds, pid, handle, handleOpen, handleCloses>>
    /\ UNCHANGED <<cfgVars, exit_status, self_streams, merge, cloexec,
                   childStatus, efPipe, execErr, sig, ret, detached, osKill, osWait,
                   spun, polls, comm>>

(* ------------------------------------------------------------------ *)
(* The child, once its program runs.                                   *)
(* ------------------------------------------------------------------ *)

\* The program ends: with an exit code of its own, or by the signal that was
\* delivered to it (SIGTERM may be handled, SIGKILL may not).  On windows
\* TerminateProcess(handle, 1) is recorded as signal 9 and ends the process
\* with exit code 1.
ChildExit ==
    /\ child = "running"
    /\ \E st \in (IF sig = 9 THEN {} ELSE {Exited(c) : c \in ExitCodes})
                 \cup (IF sig = 0 THEN {}
                       ELSE IF platform = "windows" THEN {Exited(1)}
                       ELSE {Signaled(sig)}) :
         childStatus' = st
    /\ child' = "zombie"
    /\ childFds' = {}
    /\ UNCHANGED <<cfgVars, handleVars, fdVars, efPipe, execErr, sig,
                   callVars, comm>>

(* ------------------------------------------------------------------ *)
(* unix: PopenOsImpl::waitpid and send_signal, lines 377-399.          *)
(* ------------------------------------------------------------------ *)

\* posix::waitpid(pid, flags): it fails ("error"), reports the terminated
\* child ("reaped"), or, with WNOHANG only, reports a child still running
\* ("running").  A blocking call on a running child yields nothing until the
\* child ends or the call fails; a signal delivered to the caller makes it
\* fail with EINTR ("eintr").
posix_waitpid(flags) ==
    {"error"}
    \cup (IF flags = "0" /\ child \in {"running", "zombie"}
          THEN {"eintr"} ELSE {})
    \cup (IF child = "zombie" THEN {"reaped"} ELSE {})
    \cup (IF flags = "WNOHANG" /\ child # "zombie" THEN {"running"} ELSE {})

\* What one call of self.waitpid(flags) meets: "nocall" when _pid is None
\* (posix::waitpid is not called), otherwise what posix::waitpid returns.
WaitpidOutcomes(flags) ==
    IF pid # "Some" THEN {"nocall"} ELSE posix_waitpid(flags)

\* waitpid, line 381: the ? returns every error of posix::waitpid, the
\* interruption included.  An error is reported in the place of the status.
Interrupted == <<"Interrupted", 4>>
WaitpidFailed(os) == os \in {"error", "eintr"}
WaitpidError(os) == IF os = "eintr" THEN Interrupted ELSE NoStatus

\* self._pid after waitpid, lines 382-383.
waitpid_pid_kept(os) == pid
waitpid_pid(os) == IF os = "reaped" THEN "None" ELSE pid

\* self.exit_status after waitpid, lines 382-384.
waitpid_exit_status_zero(os) == IF os = "reaped" THEN Exited(0) ELSE exit_status
waitpid_exit_status_always(os) == IF os = "reaped" THEN childStatus ELSE NoStatus
waitpid_exit_status(os) == IF os = "reaped" THEN childStatus ELSE exit_status

\* The child once posix::waitpid has returned its status.
Reap(os) == IF os = "reaped" THEN "reaped" ELSE child

(* ------------------------------------------------------------------ *)
(* windows: PopenOsImpl::wait_handle, lines 517-530.                    *)
(* ------------------------------------------------------------------ *)

\* What one call of self.wait_handle(timeout) meets: "nocall" when the
\* handle is None; otherwise WaitForSingleObject fails ("error"), times out
\* on a running process ("timeout", never without a timeout), or reports
\* OBJECT_0 for a terminated one, after which GetExitCodeProcess succeeds
\* ("object_0") or fails ("object_0_error").
WaitHandleOutcomes(timeout) ==
    IF handle # "Some" THEN {"nocall"}
    ELSE {"error"}
         \cup (IF child = "zombie" THEN {"object_0", "object_0_error"} ELSE {})
         \cup (IF timeout # "None" /\ child # "zombie" THEN {"timeout"} ELSE {})

Object0(os) == os \in {"object_0", "object_0_error"}

\* self._pid after wait_handle, line 523.
wait_handle_pid(os) == IF Object0(os) THEN "None" ELSE pid

\* self.ext_data.handle after wait_handle, line 524: taken, and dropped when
\* wait_handle returns.
wait_handle_handle_kept(os) == handle
wait_handle_handle(os) == IF Object0(os) THEN "None" ELSE handle

\* The Handle taken at line 524 is dropped, and so closed (win32.rs, Drop for
\* Handle), when the block ends or the ? of line 525 returns.
wait_handle_closes(os) == IF Object0(os) THEN 1 ELSE 0

\* self.exit_status after wait_handle, lines 525-526.
wait_handle_exit_status(os) ==
    IF os = "object_0" THEN childStatus ELSE exit_status

\* Whether the call returned Err.
WaitFailed(os) == os \in {"error", "object_0_error"}

Ret(op, kind, st) == [op |-> op, kind |-> kind, st |-> st]

(* ------------------------------------------------------------------ *)
(* Lifecycle calls on a handle that create returned.                   *)
(* ------------------------------------------------------------------ *)

\* unix poll, lines 338-343.
PollPosix ==
    /\ pc = "live"
    /\ platform = "posix"
    /\ \E os \in WaitpidOutcomes("WNOHANG") :
         /\ pid' = waitpid_pid(os)
         /\ exit_status' = waitpid_exit_status(os)
         /\ child' = Reap(os)
         /\ osWait' = (os # "nocall")
         /\ ret' = Ret("poll", "Ok",
                       IF os = "error" THEN NoStatus ELSE exit_status')
    /\ UNCHANGED <<cfgVars, self_streams, handle, handleOpen, handleCloses, fdVars,
                   childStatus, childFds, efPipe, execErr, sig, pc, result,
                   detached, osKill, spun, polls, comm>>

\* windows poll, lines 479-484.
PollWin ==
    /\ pc = "live"
    /\ platform = "windows"
    /\ \E os \in WaitHandleOutcomes("0") :
         /\ pid' = wait_handle_pid(os)
         /\ handle' = wait_handle_handle(os)
         /\ handleOpen' = (handle' = "Some")
         /\ handleCloses' = handleCloses + wait_handle_closes(os)
         /\ exit_status' = wait_handle_exit_status(os)
         /\ child' = IF Object0(os) THEN "reaped" ELSE child
         /\ osWait' = (os # "nocall")
         /\ ret' = Ret("poll", "Ok",
                       IF WaitFailed(os) THEN NoStatus ELSE exit_status')
    /\ UNCHANGED <<cfgVars, self_streams, fdVars, childStatus, childFds,
                   efPipe, execErr, sig, pc, result, detached, osKill, spun, polls,
                   comm>>

\* Popen::wait is entered: by the caller, or by Drop for Popen (line 620).
InWait == {"wait", "drop_wait", "create_drop_wait"}

WaitCont(p) ==
    CASE p = "wait" -> "live"
      [] p = "drop_wait" -> "drop_fields"
      [] p = "create_drop_wait" -> "create_drop_fields"

WaitCall ==
    /\ pc = "live"
    /\ pc' = "wait"
    /\ osWait' = FALSE
    /\ UNCHANGED <<cfgVars, handleVars, fdVars, childVars, result, ret,
                   detached, osKill, spun, polls, comm>>

\* unix wait, lines 304-309: the loop runs waitpid(0) while exit_status is
\* None.  With _pid None the body changes nothing and the loop goes round.
WaitPosix ==
    /\ pc \in InWait
    /\ platform = "posix"
    /\ IF exit_status # NoStatus
       THEN /\ ret' = Ret("wait", "Ok", exit_status)
            /\ pc' = WaitCont(pc)
            /\ UNCHANGED <<pid, exit_status, child, osWait, spun>>
       ELSE \E os \in WaitpidOutcomes("0") :
              /\ pid' = waitpid_pid(os)
              /\ exit_status' = waitpid_exit_status(os)
              /\ child' = Reap(os)
              /\ osWait' = (osWait \/ os # "nocall")
              /\ IF WaitpidFailed(os)
                 THEN /\ ret' = Ret("wait", "Err", WaitpidError(os))
                      /\ pc' = WaitCont(pc)
                      /\ UNCHANGED spun
                 ELSE IF exit_status' # NoStatus
                 THEN /\ ret' = Ret("wait", "Ok", exit_status')
                      /\ pc' = WaitCont(pc)
                      /\ UNCHANGED spun
                 ELSE /\ spun' = TRUE
                      /\ UNCHANGED <<ret, pc>>
    /\ UNCHANGED <<cfgVars, self_streams, handle, handleOpen, handleCloses, fdVars,
                   childStatus, childFds, efPipe, execErr, sig, result,
                   detached, osKill, polls, comm>>

\* windows wait, lines 458-468: one wait_handle(None), then Ok(exit_status)
\* or the LogicError.
WaitWin ==
    /\ pc \in InWait
    /\ platform = "windows"
    /\ \E os \in WaitHandleOutcomes("None") :
         /\ pid' = wait_handle_pid(os)
         /\ handle' = wait_handle_handle(os)
         /\ handleOpen' = (handle' = "Some")
         /\ handleCloses' = handleCloses + wait_handle_closes(os)
         /\ exit_status' = wait_handle_exit_status(os)
         /\ child' = IF Object0(os) THEN "reaped" ELSE child
         /\ osWait' = (osWait \/ os # "nocall")
         /\ ret' = IF WaitFailed(os) \/ exit_status' = NoStatus
                   THEN Ret("wait", "Err", NoStatus)
                   ELSE Ret("wait", "Ok", exit_status')
    /\ pc' = WaitCont(pc)
    /\ UNCHANGED <<cfgVars, self_streams, fdVars, childStatus, childFds,
                   efPipe, execErr, sig, result, detached, osKill, spun, polls, comm>>

\* wait_timeout(dur), lines 316-322 and 471-473: with exit_status set it
\* returns at once; otherwise the deadline is fixed, here as the number of
\* sleeps that fit before it.
WaitTimeoutCall ==
    /\ pc = "live"
    /\ osWait' = FALSE
    /\ IF exit_status # NoStatus
       THEN /\ ret' = Ret("wait_timeout", "Ok", exit_status)
            /\ UNCHANGED <<pc, polls>>
       ELSE /\ pc' = "wait_timeout"
            /\ polls' \in 0..MaxPolls
            /\ UNCHANGED ret
    /\ UNCHANGED <<cfgVars, handleVars, fdVars, childVars, result, detached, osKill,
                   spun, comm>>

\* unix wait_timeout, lines 328-331: now >= deadline, that is, no sleep fits
\* before the deadline any more.
DeadlineIgnored == FALSE
DeadlineReached == polls = 0

\* unix wait_timeout, lines 323-335: one turn of the polling loop.
WaitTimeoutPosix ==
    /\ pc = "wait_timeout"
    /\ platform = "posix"
    /\ \E os \in WaitpidOutcomes("WNOHANG") :
         /\ pid' = waitpid_pid(os)
         /\ exit_status' = waitpid_exit_status(os)
         /\ child' = Reap(os)
         /\ osWait' = (osWait \/ os # "nocall")
         /\ IF os = "error"
            THEN /\ ret' = Ret("wait_timeout", "Err", NoStatus)
                 /\ pc' = "live"
                 /\ UNCHANGED polls
            ELSE IF exit_status' # NoStatus \/ DeadlineReached
            THEN /\ ret' = Ret("wait_timeout", "Ok", exit_status')
                 /\ pc' = "live"
                 /\ UNCHANGED polls
            ELSE /\ polls' = polls - 1
                 /\ UNCHANGED <<ret, pc>>
    /\ UNCHANGED <<cfgVars, self_streams, handle, handleOpen, handleCloses, fdVars,
                   childStatus, childFds, efPipe, execErr, sig, result,
                   detached, osKill, spun, comm>>

\* windows wait_timeout, lines 474-476: one timed wait_handle.
WaitTimeoutWin ==
    /\ pc = "wait_timeout"
    /\ platform = "windows"
    /\ \E os \in WaitHandleOutcomes("dur") :
         /\ pid' = wait_handle_pid(os)
         /\ handle' = wait_handle_handle(os)
         /\ handleOpen' = (handle' = "Some")
         /\ handleCloses' = handleCloses + wait_handle_closes(os)
         /\ exit_status' = wait_handle_exit_status(os)
         /\ child' = IF Object0(os) THEN "reaped" ELSE child
         /\ osWait' = (osWait \/ os # "nocall")
         /\ ret' = IF WaitFailed(os)
                   THEN Ret("wait_timeout", "Err", NoStatus)
                   ELSE Ret("wait_timeout", "Ok", exit_status')
    /\ pc' = "live"
    /\ UNCHANGED <<cfgVars, self_streams, fdVars, childStatus, childFds,
                   efPipe, execErr, sig, result, detached, osKill, spun, polls, comm>>

\* send_signal, line 393: whether posix::kill is called.
send_signal_calls_always == TRUE
send_signal_calls == pid = "Some"

\* unix terminate and kill, lines 345-351, through send_signal, lines
\* 392-399: posix::kill(pid, signal) when _pid is Some.  SIGKILL overrides a
\* pending SIGTERM.

SendSignal(op, signal) ==
    /\ pc = "live"
    /\ platform = "posix"
    /\ osWait' = FALSE
    /\ osKill' = send_signal_calls
    /\ IF send_signal_calls
       THEN \E ok \in BOOLEAN :
              /\ ret' = Ret(op, IF ok THEN "Ok" ELSE "Err", NoStatus)
              /\ sig' = IF ok /\ child = "running" /\ sig # 9
                        THEN signal ELSE sig
       ELSE /\ ret' = Ret(op, "Ok", NoStatus)
            /\ UNCHANGED sig
    /\ UNCHANGED <<cfgVars, handleVars, fdVars, child, childStatus, childFds,
                   efPipe, execErr, pc, result, detached, spun, polls, comm>>

TerminatePosix == SendSignal("terminate", 15)

KillPosix == SendSignal("kill", 9)

\* What TerminateProcess and the recovery of windows terminate meet, lines
\* 486-505: "nocall" when the handle is None; the process is terminated
\* ("ok"); TerminateProcess fails with another error ("error"); or it fails
\* with ERROR_ACCESS_DENIED, and GetExitCodeProcess then fails
\* ("denied_error"), reports STILL_ACTIVE ("denied_active") or reports the
\* exit code of the process that has ended ("denied_exited").
TerminateOutcomes ==
    IF handle # "Some" THEN {"nocall"}
    ELSE {"error", "denied_error"}
         \cup (IF child = "running" THEN {"ok", "denied_active"} ELSE {})
         \cup (IF child = "zombie" THEN {"denied_exited"} ELSE {})

\* The error windows terminate returns: the error of TerminateProcess (490,
\* 495: ERROR_ACCESS_DENIED when the process is STILL_ACTIVE) or the error of
\* GetExitCodeProcess (493).
AccessDenied == <<"IoError", 5>>
TerminateError(os) ==
    CASE os = "error" -> <<"IoError", 87>>
      [] os = "denied_active" -> AccessDenied
      [] os = "denied_error" -> <<"IoError", 6>>
      [] OTHER -> NoStatus

\* self.exit_status after windows terminate, line 497.
terminate_exit_status_kept(os) == exit_status
terminate_exit_status(os) ==
    IF os = "denied_exited" THEN childStatus ELSE exit_status

\* windows terminate, lines 486-505; kill is terminate, line 508.
TerminateWin(op) ==
    /\ pc = "live"
    /\ platform = "windows"
    /\ osWait' = FALSE
    /\ \E os \in TerminateOutcomes :
         /\ osKill' = (os # "nocall")
         /\ ret' = Ret(op, IF os \in {"nocall", "ok", "denied_exited"}
                           THEN "Ok" ELSE "Err", TerminateError(os))
         /\ sig' = IF os = "ok" THEN 9 ELSE sig
         /\ exit_status' = terminate_exit_status(os)
         /\ IF os = "denied_exited"
            THEN /\ pid' = "None"
                 /\ handle' = "None"
                 /\ handleOpen' = FALSE
                 /\ handleCloses' = handleCloses + 1
                 /\ child' = "reaped"
            ELSE UNCHANGED <<pid, handle, handleOpen, handleCloses, child>>
    /\ UNCHANGED <<cfgVars, self_streams, fdVars, childStatus, childFds,
                   efPipe, execErr, pc, result, detached, spun, polls, comm>>

TerminateWindows == TerminateWin("terminate")

KillWindows == TerminateWin("kill")

\* What detach leaves in _pid, line 83.
detach_pid == "None"

\* Popen::detach, lines 82-84.
Detach ==
    /\ pc = "live"
    /\ pid' = detach_pid
    /\ detached' = TRUE
    /\ osWait' = FALSE
    /\ ret' = Ret("detach", "Ok", NoStatus)
    /\ UNCHANGED <<osKill, cfgVars, exit_status, self_streams, handle, handleOpen, handleCloses,
                   fdVars, childVars, pc, result, spun, polls, comm>>

\* Drop for Popen, line 618: whether drop calls self.wait().
DropWaitsNever == FALSE
DropWaits == exit_status = NoStatus

\* Whether dropping the fields of Popen closes the process handle: Drop for
\* Handle (win32.rs, lines 27-31) runs when ext_data.handle is Some.
DropClosesHandleAlways == TRUE
DropClosesHandle == handle = "Some"

\* Drop for Popen, lines 615-622, entered when the caller lets the handle go
\* out of scope, or in create when start failed.
DropCall ==
    /\ pc \in {"live", "create_drop"}
    /\ pc' = IF pc = "live"
             THEN (IF DropWaits THEN "drop_wait" ELSE "drop_fields")
             ELSE (IF DropWaits THEN "create_drop_wait"
                   ELSE "create_drop_fields")
    /\ osWait' = FALSE
    /\ UNCHANGED <<cfgVars, handleVars, fdVars, childVars, result, ret,
                   detached, osKill, spun, polls, comm>>

\* After drop has run, the fields are dropped: the parent-side ends the
\* instance still holds are closed, and so is the process handle.  In create
\* the error of start is then returned to the caller (the ? of line 78).
DropFields ==
    /\ pc \in {"drop_fields", "create_drop_fields"}
    /\ openFds' = openFds \ StoredEnds
    /\ handleOpen' = FALSE
    /\ handleCloses' = handleCloses + (IF DropClosesHandle THEN 1 ELSE 0)
    /\ pc' = IF pc = "drop_fields" THEN "dropped" ELSE "create_returned"
    /\ result' = IF pc = "drop_fields" THEN result
                 ELSE [kind |-> "Err", err |-> result.err]
    /\ UNCHANGED <<cfgVars, pid, exit_status, self_streams, handle,
                   child_ends, merge, cloexec, childVars, ret, detached, osKill,
                   osWait, spun, polls, comm>>

(* ------------------------------------------------------------------ *)
(* The handle: create, the lifecycle calls, drop.                      *)
(* ------------------------------------------------------------------ *)

Next ==
    \/ ExecFailPipe
    \/ ExecFailPipeCloexec
    \/ WinStart
    \/ \E s \in Streams : MakeChildStream(s)
    \/ ResolveMerge
    \/ Fork
    \/ ChildExec
    \/ ReadExecFailPipe
    \/ WinSpawn
    \/ ChildExit
    \/ PollPosix
    \/ PollWin
    \/ WaitCall
    \/ WaitPosix
    \/ WaitWin
    \/ WaitTimeoutCall
    \/ WaitTimeoutPosix
    \/ WaitTimeoutWin
    \/ TerminatePosix
    \/ KillPosix
    \/ TerminateWindows
    \/ KillWindows
    \/ Detach
    \/ DropCall
    \/ DropFields

Spec == Init /\ [][Next]_vars

(* ------------------------------------------------------------------ *)
(* The communicator: communicate_bytes, comm_read, comm_write, lines   *)
(* 144-192, against a child that copies its stdin to its stdout and    *)
(* writes bytes of its own to its stderr.                              *)
(* ------------------------------------------------------------------ *)

Bytes == {"a", "b"}

\* The byte strings handed to communicate_bytes.
Inputs == UNION {[1..n -> Bytes] : n \in 0..MaxLen}

\* The configurations whose streams are piped or inherited.
PipeConfigs == [Streams -> {"Pipe", "None"}]

\* The configurations that pipe one of stdout and stderr and merge the other
\* into it.
MergeConfigs ==
    {c \in [Streams -> {"Pipe", "None", "Merge"}] :
        /\ c["stdin"] # "Merge"
        /\ {c["stdout"], c["stderr"]} = {"Pipe", "Merge"}}

\* The stream that s is merged into under configuration c.
MergedInto(s) == IF s = "stdout" THEN "stderr" ELSE "stdout"

\* The handle and the child as a successful create leaves them, the child's
\* program running: the parent holds the parent ends only, the child the
\* child ends (on windows also the clones of the inherited streams).
CommStart(configs) ==
    /\ platform \in Platforms
    /\ argv = <<>>
    /\ cmdline = <<>>
    /\ delay = InitialDelay
    /\ remaining = 0
    /\ sleeps = 0
    /\ ConcIdle
    /\ cfg \in configs
    /\ pc = "live"
    /\ pid = "Some"
    /\ exit_status = NoStatus
    /\ self_streams = [s \in Streams |->
                         IF cfg[s] = "Pipe" THEN ParentEnd(s) ELSE NoFd]
    /\ handle = IF platform = "windows" THEN "Some" ELSE "None"
    /\ handleOpen = (platform = "windows")
    /\ handleCloses = 0
    /\ child_ends = [s \in Streams |->
                       IF cfg[s] = "Pipe" THEN ChildEnd(s)
                       ELSE IF cfg[s] = "Merge"
                       THEN TryClone(ChildEnd(MergedInto(s)))
                       ELSE IF platform = "windows" THEN StdClone(s) ELSE NoFd]
    /\ merge = IF cfg["stderr"] = "Merge" THEN "OutToErr"
               ELSE IF cfg["stdout"] = "Merge" THEN "ErrToOut" ELSE "None"
    /\ openFds = {ParentEnd(s) : s \in {t \in Streams : cfg[t] = "Pipe"}}
    /\ cloexec = openFds \cup (IF platform = "posix" THEN {EF_R, EF_W} ELSE {})
    /\ child = "running"
    /\ childStatus = NoStatus
    /\ childFds = Range(child_ends) \ {NoFd}
    /\ efPipe = <<>>
    /\ execErr = 0
    /\ sig = 0
    /\ result = [kind |-> "Ok", err |-> NoError]
    /\ ret = [op |-> "none", kind |-> "none", st |-> NoStatus]
    /\ detached = FALSE
    /\ osKill = FALSE
    /\ osWait = FALSE
    /\ spun = FALSE
    /\ polls = 0
    /\ input_some \in BOOLEAN
    /\ input_data \in (IF input_some THEN Inputs ELSE {<<>>})
    /\ wpc = "idle"
    /\ rpc = [s \in Outputs |-> "none"]
    /\ written = 0
    /\ pipebuf = [s \in Streams |-> <<>>]
    /\ contents = [s \in Outputs |-> <<>>]
    /\ comm_result = [kind |-> "Pending", out |-> NoOutput, err |-> NoOutput]
    /\ cpc = "idle"
    /\ cheld = <<>>
    /\ cerrLeft \in 0..MaxErrBytes
    /\ cstdinEof = FALSE
    /\ cwrote = [s \in Outputs |-> <<>>]

CommInit == CommStart(PipeConfigs)

\* The same with stdout and stderr sharing one pipe.
CommInitMerge == CommStart(MergeConfigs)

Piped(s) == self_streams[s] # NoFd

\* A reader of the pipe of s is at end of file when the pipe is empty and no
\* process holds its write end.
PipeAtEof(s) ==
    /\ pipebuf[s] = <<>>
    /\ IF s = "stdin"
       THEN ParentEnd(s) \notin openFds \cup childFds
       ELSE \A fd \in openFds \cup childFds : OpenFileOf(fd) # ChildEnd(s)

\* The readers communicate_bytes starts: line 167 or 172 on the calling
\* thread, lines 178-183 as scoped threads.
ReadersOf ==
    [s \in Outputs |-> IF Piped(s) THEN "reading" ELSE "none"]

\* communicate_bytes, lines 159-187, up to the first transfer: the match on
\* the three streams, the expect / assert! on input_data, and the spawn of
\* the readers.  A panic inside the scope unwinds through the scope, which
\* joins the threads it spawned.
CommCall ==
    /\ wpc = "idle"
    /\ LET in == Piped("stdin")
           out == Piped("stdout")
           err == Piped("stderr")
       IN  IF in /\ ~out /\ ~err
           THEN /\ wpc' = IF input_some THEN "write" ELSE "panicked"
                /\ UNCHANGED rpc
           ELSE IF ~in /\ (out # err)
           THEN /\ wpc' = IF input_some THEN "panicked" ELSE "join"
                /\ rpc' = IF input_some THEN rpc ELSE ReadersOf
           ELSE /\ rpc' = ReadersOf
                /\ wpc' = IF ~in THEN "join"
                          ELSE IF input_some THEN "write" ELSE "unwind"
    /\ UNCHANGED <<cfgVars, handleVars, fdVars, childVars, callVars,
                   input_some, input_data, written, pipebuf, contents,
                   comm_result, cpc, cheld, cerrLeft, cstdinEof, cwrote>>

\* comm_write, lines 151-155: write_all blocks while the pipe is full; when
\* all of input_data is written the endpoint is taken, which closes it.
CommWrite ==
    /\ wpc = "write"
    /\ IF written = Len(input_data)
       THEN /\ self_streams' = [self_streams EXCEPT !["stdin"] = NoFd]
            /\ openFds' = openFds \ {ParentEnd("stdin")}
            /\ wpc' = "join"
            /\ UNCHANGED <<written, pipebuf>>
       ELSE /\ Len(pipebuf["stdin"]) < PipeCap
            /\ pipebuf' = [pipebuf EXCEPT
                             !["stdin"] = Append(@, input_data[written + 1])]
            /\ written' = written + 1
            /\ UNCHANGED <<self_streams, openFds, wpc>>
    /\ UNCHANGED <<cfgVars, pid, exit_status, handle, handleOpen, handleCloses, child_ends,
                   merge, cloexec, childVars, callVars, input_some,
                   input_data, rpc, contents, comm_result, cpc, cheld,
                   cerrLeft, cstdinEof, cwrote>>

\* Whether the comm_read of s runs beside the write to stdin: lines 178-183
\* spawn it before the write starts.
ReaderRunsAfterWrite(s) == rpc[s] = "reading" /\ wpc # "write"
ReaderRuns(s) == rpc[s] = "reading"

\* read_to_end, line 146: what the Vec holds after one more chunk.
ReadToEndKeepsLast(acc, chunk) == chunk
ReadToEnd(acc, chunk) == acc \o chunk

\* comm_read, lines 144-149: read_to_end takes what the pipe holds until end
\* of file, then the endpoint is taken, which closes it.
CommRead(s) ==
    /\ ReaderRuns(s)
    /\ IF pipebuf[s] # <<>>
       THEN \E k \in 1..Len(pipebuf[s]) :
              /\ contents' = [contents EXCEPT
                                ![s] = ReadToEnd(@, SubSeq(pipebuf[s], 1, k))]
              /\ pipebuf' = [pipebuf EXCEPT
                               ![s] = SubSeq(@, k + 1, Len(@))]
              /\ UNCHANGED <<self_streams, openFds, rpc>>
       ELSE /\ PipeAtEof(s)
            /\ self_streams' = [self_streams EXCEPT ![s] = NoFd]
            /\ openFds' = openFds \ {ParentEnd(s)}
            /\ rpc' = [rpc EXCEPT ![s] = "done"]
            /\ UNCHANGED <<contents, pipebuf>>
    /\ UNCHANGED <<cfgVars, pid, exit_status, handle, handleOpen, handleCloses, child_ends,
                   merge, cloexec, childVars, callVars, input_some,
                   input_data, wpc, written, comm_result, cpc, cheld,
                   cerrLeft, cstdinEof, cwrote>>

CapturedAlways(s) == [some |-> TRUE, bytes |-> contents[s]]
Captured(s) ==
    IF rpc[s] = "done" THEN [some |-> TRUE, bytes |-> contents[s]]
    ELSE NoOutput

CommErr == [kind |-> "Err", out |-> NoOutput, err |-> NoOutput]

\* communicate_bytes, lines 162, 167, 172, 186 and 188-189: the value the
\* call returns: the ? on comm_write, comm_read and on each join() turns a
\* failed transfer into Err; otherwise the Vecs of the readers.
JoinResultIgnoresErrors ==
    [kind |-> "Ok",
     out |-> [some |-> rpc["stdout"] # "none", bytes |-> contents["stdout"]],
     err |-> [some |-> rpc["stderr"] # "none", bytes |-> contents["stderr"]]]
JoinResult ==
    IF wpc = "join_err" \/ \E s \in Outputs : rpc[s] = "failed"
    THEN CommErr
    ELSE [kind |-> "Ok", out |-> Captured("stdout"),
          err |-> Captured("stderr")]

\* The scope of lines 176-190 lets the call go on only when every thread it
\* spawned has finished (the single reads of 167 and 172 are made by the
\* calling thread itself).
AllJoinedNever == TRUE
AllJoined == \A s \in Outputs : rpc[s] # "reading"

\* communicate_bytes, lines 163, 168, 173, 188-190: the readers are joined
\* and their Vecs returned; an unwinding panic leaves when the scope has
\* joined them.
CommJoin ==
    /\ wpc \in {"join", "join_err", "unwind"}
    /\ AllJoined
    /\ IF wpc = "unwind"
       THEN /\ wpc' = "panicked"
            /\ UNCHANGED comm_result
       ELSE /\ wpc' = "returned"
            /\ comm_result' = JoinResult
    /\ UNCHANGED <<cfgVars, handleVars, fdVars, childVars, callVars,
                   input_some, input_data, rpc, written, pipebuf, contents,
                   cpc, cheld, cerrLeft, cstdinEof, cwrote>>

\* The child's program picks its next blocking call: it writes what it has
\* read before it reads more, and may write to its stderr at any point.
ChildChoose ==
    /\ child = "running"
    /\ cpc = "idle"
    /\ \E op \in (IF cheld = <<>> /\ ~cstdinEof THEN {"reading"} ELSE {})
                 \cup (IF cheld # <<>> THEN {"echoing"} ELSE {})
                 \cup (IF cerrLeft > 0 THEN {"erring"} ELSE {}) :
         cpc' = op
    /\ UNCHANGED <<cfgVars, handleVars, fdVars, childVars, callVars,
                   input_some, input_data, wpc, rpc, written, pipebuf,
                   contents, comm_result, cheld, cerrLeft, cstdinEof, cwrote>>

\* The child's read of fd 0 blocks while the pipe is empty and its write end
\* is open.  An inherited stdin is taken to be at end of file.
ChildRead ==
    /\ cpc = "reading"
    /\ IF ChildEnd("stdin") \in childFds /\ pipebuf["stdin"] # <<>>
       THEN /\ cheld' = <<Head(pipebuf["stdin"])>>
            /\ pipebuf' = [pipebuf EXCEPT !["stdin"] = Tail(@)]
            /\ UNCHANGED cstdinEof
       ELSE /\ ChildEnd("stdin") \in childFds => PipeAtEof("stdin")
            /\ cstdinEof' = TRUE
            /\ UNCHANGED <<cheld, pipebuf>>
    /\ cpc' = "idle"
    /\ UNCHANGED <<cfgVars, handleVars, fdVars, childVars, callVars,
                   input_some, input_data, wpc, rpc, written, contents,
                   comm_result, cerrLeft, cwrote>>

\* The open file that the child's descriptor for s refers to, named by the
\* stream it was opened for; writes to one open file are ordered, writes to
\* different ones are not.
FileKey(s) ==
    LET to == OpenFileOf(child_ends[s])
    IN  IF to = NoFd THEN s ELSE to[2]

\* The child's write to fd 1 or fd 2 goes to the open file that the child end
\* of s refers to; it blocks while that pipe is full, and a stream that is
\* not a pipe takes every byte.
ChildWrite(s, byte) ==
    /\ LET to == OpenFileOf(child_ends[s])
       IN  IF child_ends[s] \in childFds /\ to[1] = "child_end"
           THEN /\ Len(pipebuf[to[2]]) < PipeCap
                /\ pipebuf' = [pipebuf EXCEPT ![to[2]] = Append(@, byte)]
           ELSE UNCHANGED pipebuf
    /\ cwrote' = [cwrote EXCEPT ![FileKey(s)] = Append(@, <<s, byte>>)]
    /\ cpc' = "idle"

ChildEcho ==
    /\ cpc = "echoing"
    /\ ChildWrite("stdout", Head(cheld))
    /\ cheld' = <<>>
    /\ UNCHANGED <<cfgVars, handleVars, fdVars, childVars, callVars,
                   input_some, input_data, wpc, rpc, written, contents,
                   comm_result, cerrLeft, cstdinEof>>

ChildErr ==
    /\ cpc = "erring"
    /\ ChildWrite("stderr", "e")
    /\ cerrLeft' = cerrLeft - 1
    /\ UNCHANGED <<cfgVars, handleVars, fdVars, childVars, callVars,
                   input_some, input_data, wpc, rpc, written, contents,
                   comm_result, cheld, cstdinEof>>

\* The child has read its stdin to end of file and written everything: it
\* exits, which closes its descriptors.
ChildDone ==
    /\ child = "running"
    /\ cpc = "idle"
    /\ cstdinEof /\ cheld = <<>> /\ cerrLeft = 0
    /\ cpc' = "exited"
    /\ child' = "zombie"
    /\ childStatus' = Exited(0)
    /\ childFds' = {}
    /\ UNCHANGED <<cfgVars, handleVars, fdVars, efPipe, execErr, sig,
                   callVars, input_some, input_data, wpc, rpc, written,
                   pipebuf, contents, comm_result, cheld, cerrLeft,
                   cstdinEof, cwrote>>

CommNext ==
    \/ CommCall
    \/ CommWrite
    \/ \E s \in Outputs : CommRead(s)
    \/ CommJoin
    \/ ChildChoose
    \/ ChildRead
    \/ ChildEcho
    \/ ChildErr
    \/ ChildDone

SpecComm == CommInit /\ [][CommNext]_vars

\* comm_write, line 152: write_all fails, the ? returns the error and the
\* endpoint is not taken.  In the scope the closure returns the error and the
\* scope then joins the readers.
CommWriteFails ==
    /\ wpc = "write"
    /\ written < Len(input_data)
    /\ wpc' = "join_err"
    /\ UNCHANGED <<cfgVars, handleVars, fdVars, childVars, callVars,
                   input_some, input_data, rpc, written, pipebuf, contents,
                   comm_result, cpc, cheld, cerrLeft, cstdinEof, cwrote>>

\* comm_read, line 146: read_to_end fails, the ? returns the error and the
\* endpoint is not taken.
CommReadFails(s) ==
    /\ ReaderRuns(s)
    /\ rpc' = [rpc EXCEPT ![s] = "failed"]
    /\ UNCHANGED <<cfgVars, handleVars, fdVars, childVars, callVars,
                   input_some, input_data, wpc, written, pipebuf, contents,
                   comm_result, cpc, cheld, cerrLeft, cstdinEof, cwrote>>

\* communicate_bytes when the reads and writes on the pipes may fail.
CommNextIo ==
    \/ CommNext
    \/ CommWriteFails
    \/ \E s \in Outputs : CommReadFails(s)

SpecCommIo == CommInit /\ [][CommNextIo]_vars

\* communicate_bytes on a handle whose stdout and stderr are merged.
SpecCommMerge == CommInitMerge /\ [][CommNext]_vars

\* The threads of the parent and the child's process are all scheduled.
FairSpecComm ==
    /\ CommInit
    /\ [][CommNext]_vars
    /\ WF_vars(CommCall)
    /\ WF_vars(CommWrite)
    /\ WF_vars(CommRead("stdout"))
    /\ WF_vars(CommRead("stderr"))
    /\ WF_vars(CommJoin)
    /\ WF_vars(ChildChoose \/ ChildRead \/ ChildEcho \/ ChildErr \/ ChildDone)

(* ------------------------------------------------------------------ *)
(* windows: assemble_cmdline and append_quoted, lines 556-606.         *)
(* An argument is a sequence of characters; NUL, for which              *)
(* assemble_cmdline returns an error (559-561), is not among them.      *)
(* ------------------------------------------------------------------ *)

Ordinary == "a"
Space == " "
Backslash == "\\"
Quote == "\""
Chars == {Ordinary, Space, Backslash, Quote}

ArgsUpTo(n) == UNION {[1..k -> Chars] : k \in 0..n}

\* The argument vectors of k arguments with at most n characters in all.
RECURSIVE ArgvsOf(_, _)
ArgvsOf(k, n) ==
    IF k = 0 THEN {<<>>}
    ELSE UNION {{<<a>> \o rest : rest \in ArgvsOf(k - 1, n - Len(a))} :
                  a \in ArgsUpTo(n)}

Argvs == UNION {ArgvsOf(k, MaxChars) : k \in 0..MaxArgs}

Rep(c, n) == [k \in 1..n |-> c]

\* The inner while of lines 579-582: the backslashes of s from position i on.
RECURSIVE RunLen(_, _)
RunLen(s, i) ==
    IF i <= Len(s) /\ s[i] = Backslash THEN 1 + RunLen(s, i + 1) ELSE 0

\* append_quoted, lines 570-575: the argument is copied as it is when it is
\* not empty and holds no space, tab, newline, VT or quote.
NeedsQuotes(arg) ==
    arg = <<>> \/ \E i \in 1..Len(arg) : arg[i] \in {Space, Quote}

\* append_quoted, lines 584-588: the backslashes pushed for a run of n that
\* ends the argument, before the closing quote.
ClosingBackslashesSingle(n) == n
ClosingBackslashes(n) == n * 2

\* append_quoted, lines 577-603: the loop from position i of arg on.
RECURSIVE QuoteFrom(_, _)
QuoteFrom(arg, i) ==
    IF i > Len(arg) THEN <<>>
    ELSE LET num_backslashes == RunLen(arg, i)
             j == i + num_backslashes
         IN  IF j > Len(arg)
             THEN Rep(Backslash, ClosingBackslashes(num_backslashes))
             ELSE IF arg[j] = Quote
             THEN Rep(Backslash, num_backslashes * 2 + 1) \o <<arg[j]>>
                    \o QuoteFrom(arg, j + 1)
             ELSE Rep(Backslash, num_backslashes) \o <<arg[j]>>
                    \o QuoteFrom(arg, j + 1)

\* append_quoted, lines 569-606: what it appends to cmdline.
append_quoted(arg) ==
    IF ~NeedsQuotes(arg) THEN arg
    ELSE <<Quote>> \o QuoteFrom(arg, 1) \o <<Quote>>

\* assemble_cmdline, lines 557-565: each argument is appended, quoted, and a
\* space is pushed after it.
RECURSIVE assemble_cmdline(_)
assemble_cmdline(args) ==
    IF args = <<>> THEN <<>>
    ELSE append_quoted(Head(args)) \o <<Space>> \o assemble_cmdline(Tail(args))

CmdlineInit ==
    /\ platform = "windows"
    /\ argv \in Argvs
    /\ cmdline = <<>>
    /\ delay = InitialDelay
    /\ remaining = 0
    /\ sleeps = 0
    /\ ConcIdle
    /\ cfg = [s \in Streams |-> "None"]
    /\ pc = "assemble_cmdline"
    /\ pid = "None"
    /\ exit_status = NoStatus
    /\ self_streams = NoEnds
    /\ handle = "None"
    /\ handleOpen = FALSE
    /\ handleCloses = 0
    /\ child_ends = NoEnds
    /\ merge = "None"
    /\ openFds = {}
    /\ cloexec = {}
    /\ child = "none"
    /\ childStatus = NoStatus
    /\ childFds = {}
    /\ efPipe = <<>>
    /\ execErr = 0
    /\ sig = 0
    /\ result = [kind |-> "Pending", err |-> NoError]
    /\ ret = [op |-> "none", kind |-> "none", st |-> NoStatus]
    /\ detached = FALSE
    /\ osKill = FALSE
    /\ osWait = FALSE
    /\ spun = FALSE
    /\ polls = 0
    /\ input_some = FALSE
    /\ input_data = <<>>
    /\ wpc = "idle"
    /\ rpc = [s \in Outputs |-> "none"]
    /\ written = 0
    /\ pipebuf = [s \in Streams |-> <<>>]
    /\ contents = [s \in Outputs |-> <<>>]
    /\ comm_result = [kind |-> "Pending", out |-> NoOutput, err |-> NoOutput]
    /\ cpc = "idle"
    /\ cheld = <<>>
    /\ cerrLeft = 0
    /\ cstdinEof = FALSE
    /\ cwrote = [s \in Outputs |-> <<>>]

\* windows start, line 448: let cmdline = assemble_cmdline(argv)?.
AssembleCmdline ==
    /\ pc = "assemble_cmdline"
    /\ cmdline' = assemble_cmdline(argv)
    /\ pc' = "assembled"
    /\ UNCHANGED <<platform, cfg, argv, delay, remaining, sleeps, concVars,
                   fpc, handleVars, fdVars, childVars, result, ret, detached,
                   osKill, osWait, spun, polls, comm>>

SpecCmdline == CmdlineInit /\ [][AssembleCmdline]_vars

(* ------------------------------------------------------------------ *)
(* unix wait_timeout, lines 320-335, with its clock: the length of each *)
(* sleep.  Time is counted in half milliseconds.                        *)
(* ------------------------------------------------------------------ *)

Min(a, b) == IF a <= b THEN a ELSE b

\* Line 333: delay = min(delay * 2, min(remaining, Duration::from_millis(100))).
NextDelay == Min(delay * 2, Min(remaining, MaxDelay))

\* wait_timeout(dur) was called on a handle whose child runs; the deadline is
\* dur away (line 320).
BackoffInit ==
    /\ platform = "posix"
    /\ argv = <<>>
    /\ cmdline = <<>>
    /\ delay = InitialDelay
    /\ remaining \in 0..MaxDur
    /\ sleeps = 0
    /\ ConcIdle
    /\ cfg = [s \in Streams |-> "None"]
    /\ pc = "backoff"
    /\ pid = "Some"
    /\ exit_status = NoStatus
    /\ self_streams = NoEnds
    /\ handle = "None"
    /\ handleOpen = FALSE
    /\ handleCloses = 0
    /\ child_ends = NoEnds
    /\ merge = "None"
    /\ openFds = {}
    /\ cloexec = {EF_R, EF_W}
    /\ child = "running"
    /\ childStatus = NoStatus
    /\ childFds = {}
    /\ efPipe = <<>>
    /\ execErr = 0
    /\ sig = 0
    /\ result = [kind |-> "Ok", err |-> NoError]
    /\ ret = [op |-> "none", kind |-> "none", st |-> NoStatus]
    /\ detached = FALSE
    /\ osKill = FALSE
    /\ osWait = FALSE
    /\ spun = FALSE
    /\ polls = 0
    /\ input_some = FALSE
    /\ input_data = <<>>
    /\ wpc = "idle"
    /\ rpc = [s \in Outputs |-> "none"]
    /\ written = 0
    /\ pipebuf = [s \in Streams |-> <<>>]
    /\ contents = [s \in Outputs |-> <<>>]
    /\ comm_result = [kind |-> "Pending", out |-> NoOutput, err |-> NoOutput]
    /\ cpc = "idle"
    /\ cheld = <<>>
    /\ cerrLeft = 0
    /\ cstdinEof = FALSE
    /\ cwrote = [s \in Outputs |-> <<>>]

\* One turn of the loop, lines 323-335: waitpid(WNOHANG), the return when the
\* status is there or the deadline is reached, otherwise the new delay and
\* the sleep, which lasts the delay or longer.
BackoffStep ==
    /\ pc = "backoff"
    /\ \E os \in WaitpidOutcomes("WNOHANG") :
         /\ pid' = waitpid_pid(os)
         /\ exit_status' = waitpid_exit_status(os)
         /\ child' = Reap(os)
         /\ osWait' = TRUE
         /\ IF os = "error"
            THEN /\ ret' = Ret("wait_timeout", "Err", NoStatus)
                 /\ pc' = "live"
                 /\ UNCHANGED <<delay, remaining, sleeps>>
            ELSE IF exit_status' # NoStatus \/ remaining = 0
            THEN /\ ret' = Ret("wait_timeout", "Ok", exit_status')
                 /\ pc' = "live"
                 /\ UNCHANGED <<delay, remaining, sleeps>>
            ELSE /\ delay' = NextDelay
                 /\ sleeps' = sleeps + 1
                 /\ \E late \in 0..1 :
                      remaining' = IF remaining > delay' + late
                                   THEN remaining - (delay' + late) ELSE 0
                 /\ UNCHANGED <<ret, pc>>
    /\ UNCHANGED <<platform, cfg, argv, cmdline, concVars, fpc, self_streams,
                   handle, handleOpen, handleCloses, fdVars, childStatus, childFds, efPipe, execErr,
                   sig, result, detached, osKill, spun, polls, comm>>

BackoffNext == BackoffStep \/ ChildExit

SpecBackoff == BackoffInit /\ [][BackoffNext]_vars

(* ------------------------------------------------------------------ *)
(* Two threads of one process run unix start concurrently, each for    *)
(* its own Popen.  The descriptor table is the process's: a fork in    *)
(* one thread copies every descriptor open at that moment, with its    *)
(* close-on-exec mark as it is at that moment.                          *)
(* ------------------------------------------------------------------ *)

\* Everything that belongs to the single handle of the other
\* specifications.
oneHandleVars == <<platform, cfg, argv, cmdline, delay, remaining, sleeps,
                   fpc, handleVars, fdVars, childVars, callVars, comm>>

ConcInit ==
    /\ platform = "posix"
    /\ argv = <<>>
    /\ cmdline = <<>>
    /\ delay = InitialDelay
    /\ remaining = 0
    /\ sleeps = 0
    /\ cfg = [s \in Streams |-> "None"]
    /\ pc = "concurrent"
    /\ pid = "None"
    /\ exit_status = NoStatus
    /\ self_streams = NoEnds
    /\ handle = "None"
    /\ handleOpen = FALSE
    /\ handleCloses = 0
    /\ child_ends = NoEnds
    /\ merge = "None"
    /\ openFds = {}
    /\ cloexec = {}
    /\ child = "none"
    /\ childStatus = NoStatus
    /\ childFds = {}
    /\ efPipe = <<>>
    /\ execErr = 0
    /\ sig = 0
    /\ result = [kind |-> "Pending", err |-> NoError]
    /\ ret = [op |-> "none", kind |-> "none", st |-> NoStatus]
    /\ detached = FALSE
    /\ osKill = FALSE
    /\ osWait = FALSE
    /\ spun = FALSE
    /\ polls = 0
    /\ CommIdle
    /\ tcfg \in [Threads -> PipeConfigs]
    /\ tpc = [t \in Threads |-> At("pipe", "none")]
    /\ procFds = {}
    /\ procCloexec = {}
    /\ tchild = [t \in Threads |-> "none"]
    /\ tchildFds = [t \in Threads |-> {}]
    /\ tchildMarks = [t \in Threads |-> {}]
    /\ fpc = "none"

\* The descriptors of thread t's create that are open in the process.
Own(t) == {f \in procFds : f[1] = t}

\* start returns Err through a ?: the exec_fail_pipe, the child ends and,
\* with the Popen that create drops, the parent ends are closed.
ConcStartFails(t) ==
    /\ procFds' = procFds \ Own(t)
    /\ tpc' = [tpc EXCEPT ![t] = At("failed", "none")]

\* The position after the match on stream s in make_child_streams.
ConcAfter(s) ==
    IF s = "stderr" THEN At("fork", "none")
    ELSE At("make_pipe", NextStream(s))

\* posix::pipe(): the close-on-exec marks the two new descriptors carry.
\* pipe(2) sets none: unix pipes are inheritable by default (line 404).
posix_pipe_marks(ends) == {}

\* unix start, line 271: posix::pipe()?
ConcExecFailPipe(t) ==
    /\ tpc[t] = At("pipe", "none")
    /\ \E ok \in BOOLEAN :
         IF ok
         THEN LET ends == {<<t, EF_R>>, <<t, EF_W>>}
              IN  /\ procFds' = procFds \cup ends
                  /\ procCloexec' = procCloexec \cup posix_pipe_marks(ends)
                  /\ tpc' = [tpc EXCEPT ![t] = At("cloexec", "0")]
         ELSE /\ ConcStartFails(t)
              /\ UNCHANGED procCloexec
    /\ UNCHANGED <<oneHandleVars, tcfg, tchild, tchildFds, tchildMarks>>

\* unix start, lines 272-273: one set_inheritable(.., false)? on an end of
\* the exec_fail_pipe, which is fcntl(F_SETFD, FD_CLOEXEC), lines 402-411.
ConcExecFailPipeCloexec(t) ==
    /\ tpc[t][1] = "cloexec"
    /\ LET k == tpc[t][2]
           end == IF k = "0" THEN EF_R ELSE EF_W
       IN  \E ok \in BOOLEAN :
             IF ok
             THEN /\ procCloexec' = procCloexec \cup {<<t, end>>}
                  /\ tpc' = [tpc EXCEPT ![t] =
                               IF k = "0" THEN At("cloexec", "1")
                               ELSE At("make_pipe", "stdin")]
                  /\ UNCHANGED procFds
             ELSE /\ ConcStartFails(t)
                  /\ UNCHANGED procCloexec
    /\ UNCHANGED <<oneHandleVars, tcfg, tchild, tchildFds, tchildMarks>>

\* prepare_pipe, line 89: os::make_pipe()?, for a stream that is Pipe; any
\* other stream of these configs is None and opens nothing.
ConcMakePipe(t) ==
    /\ tpc[t][1] = "make_pipe"
    /\ LET s == tpc[t][2]
       IN  IF tcfg[t][s] = "Pipe"
           THEN \E ok \in BOOLEAN :
                  IF ok
                  THEN LET ends == {<<t, ParentEnd(s)>>, <<t, ChildEnd(s)>>}
                       IN  /\ procFds' = procFds \cup ends
                           /\ procCloexec' =
                                 procCloexec \cup posix_pipe_marks(ends)
                           /\ tpc' = [tpc EXCEPT ![t] =
                                        At("set_inheritable", s)]
                  ELSE /\ ConcStartFails(t)
                       /\ UNCHANGED procCloexec
           ELSE /\ tpc' = [tpc EXCEPT ![t] = ConcAfter(s)]
                /\ UNCHANGED <<procFds, procCloexec>>
    /\ UNCHANGED <<oneHandleVars, tcfg, tchild, tchildFds, tchildMarks>>

\* prepare_pipe, lines 92-94: os::set_inheritable(&mut parent_end, false)?
ConcSetInheritable(t) ==
    /\ tpc[t][1] = "set_inheritable"
    /\ LET s == tpc[t][2]
       IN  \E ok \in BOOLEAN :
             IF ok
             THEN /\ procCloexec' = procCloexec \cup {<<t, ParentEnd(s)>>}
                  /\ tpc' = [tpc EXCEPT ![t] = ConcAfter(s)]
                  /\ UNCHANGED procFds
             ELSE /\ ConcStartFails(t)
                  /\ UNCHANGED procCloexec
    /\ UNCHANGED <<oneHandleVars, tcfg, tchild, tchildFds, tchildMarks>>

\* unix start, lines 275-292, parent side: posix::fork()?; the child gets
\* a copy of the process's descriptors and of their marks; the parent drops
\* its child ends and exec_fail_pipe.1.
ConcFork(t) ==
    /\ tpc[t] = At("fork", "none")
    /\ \E ok \in BOOLEAN :
         IF ok
         THEN /\ tchild' = [tchild EXCEPT ![t] = "forked"]
              /\ tchildFds' = [tchildFds EXCEPT ![t] = procFds]
              /\ tchildMarks' = [tchildMarks EXCEPT ![t] = procCloexec]
              /\ procFds' = procFds \
                    ({<<t, ChildEnd(s)>> : s \in Streams} \cup {<<t, EF_W>>})
              /\ tpc' = [tpc EXCEPT ![t] = At("read", "none")]
         ELSE /\ ConcStartFails(t)
              /\ UNCHANGED <<tchild, tchildFds, tchildMarks>>
    /\ UNCHANGED <<oneHandleVars, tcfg, procCloexec>>

\* unix start, lines 276-289, child side: do_exec; a successful execvp
\* closes the descriptors that were marked close-on-exec, a failure is
\* reported and the child exits.
ConcChildExec(t) ==
    /\ tchild[t] = "forked"
    /\ \E ok \in BOOLEAN :
         IF ok
         THEN /\ tchild' = [tchild EXCEPT ![t] = "running"]
              /\ tchildFds' = [tchildFds EXCEPT ![t] = @ \ tchildMarks[t]]
         ELSE /\ tchild' = [tchild EXCEPT ![t] = "exec_failed"]
              /\ tchildFds' = [tchildFds EXCEPT ![t] = {}]
    /\ UNCHANGED <<oneHandleVars, tcfg, tpc, procFds, procCloexec,
                   tchildMarks>>

\* The program of a child ends: its descriptors are closed.
ConcChildExit(t) ==
    /\ tchild[t] = "running"
    /\ tchild' = [tchild EXCEPT ![t] = "exited"]
    /\ tchildFds' = [tchildFds EXCEPT ![t] = {}]
    /\ UNCHANGED <<oneHandleVars, tcfg, tpc, procFds, procCloexec,
                   tchildMarks>>

\* read_to_string on thread t's exec_fail_pipe.0 returns at end of file:
\* when no process holds the write end.
ConcExecFailPipeAtEof(t) ==
    /\ <<t, EF_W>> \notin procFds
    /\ \A u \in Threads : <<t, EF_W>> \notin tchildFds[u]

\* unix start, lines 293-301: the error string is read; a report of the
\* child makes start fail, end of file without one makes it return Ok.
ConcReadExecFailPipe(t) ==
    /\ tpc[t] = At("read", "none")
    /\ ConcExecFailPipeAtEof(t)
    /\ IF tchild[t] = "exec_failed"
       THEN ConcStartFails(t)
       ELSE /\ procFds' = procFds \ {<<t, EF_R>>}
            /\ tpc' = [tpc EXCEPT ![t] = At("done", "none")]
    /\ UNCHANGED <<oneHandleVars, tcfg, procCloexec, tchild, tchildFds,
                   tchildMarks>>

ConcNext ==
    \E t \in Threads :
        \/ ConcExecFailPipe(t)
        \/ ConcExecFailPipeCloexec(t)
        \/ ConcMakePipe(t)
        \/ ConcSetInheritable(t)
        \/ ConcFork(t)
        \/ ConcChildExec(t)
        \/ ConcChildExit(t)
        \/ ConcReadExecFailPipe(t)

SpecConcurrent == ConcInit /\ [][ConcNext]_vars

(* ------------------------------------------------------------------ *)
(* The forked child of unix start, lines 276-289, and do_exec, lines   *)
(* 362-375, statement by statement.                                     *)
(* ------------------------------------------------------------------ *)

\* The configs whose child ends the first pass of make_child_streams
\* chooses by itself.
PlainConfigs == [Streams -> {"None", "Pipe", "File"}]

\* The argument vectors given to create: none at all, or a command.
ForkedArgvs == {<<>>, <<<<Ordinary>>>>}

\* The child end make_child_streams returns for stream s of these configs.
PlainChildEnd(s) ==
    CASE cfg[s] = "Pipe" -> ChildEnd(s)
      [] cfg[s] = "File" -> FileOf(s)
      [] OTHER -> NoFd

\* The state in which fork has just returned 0 in the child.
ForkedInit ==
    /\ platform = "posix"
    /\ argv \in ForkedArgvs
    /\ cmdline = <<>>
    /\ delay = InitialDelay
    /\ remaining = 0
    /\ sleeps = 0
    /\ cfg \in PlainConfigs
    /\ pc = "read_exec_fail_pipe"
    /\ pid = "Some"
    /\ exit_status = NoStatus
    /\ self_streams = [s \in Streams |->
                         IF cfg[s] = "Pipe" THEN ParentEnd(s) ELSE NoFd]
    /\ handle = "None"
    /\ handleOpen = FALSE
    /\ handleCloses = 0
    /\ child_ends = [s \in Streams |-> PlainChildEnd(s)]
    /\ merge = "None"
    /\ openFds = {EF_R} \cup (Range(self_streams) \ {NoFd})
    /\ cloexec = {EF_R, EF_W} \cup (Range(self_streams) \ {NoFd})
    /\ child = "forked"
    /\ childStatus = NoStatus
    /\ childFds = {EF_R, EF_W} \cup (Range(self_streams) \ {NoFd})
                      \cup (Range(child_ends) \ {NoFd})
    /\ efPipe = <<>>
    /\ execErr = 0
    /\ sig = 0
    /\ result = [kind |-> "Pending", err |-> NoError]
    /\ ret = [op |-> "none", kind |-> "none", st |-> NoStatus]
    /\ detached = FALSE
    /\ osKill = FALSE
    /\ osWait = FALSE
    /\ spun = FALSE
    /\ polls = 0
    /\ CommIdle
    /\ tcfg = [t \in Threads |-> [s \in Streams |-> "None"]]
    /\ tpc = [t \in Threads |-> At("idle", "none")]
    /\ procFds = {}
    /\ procCloexec = {}
    /\ tchild = [t \in Threads |-> "none"]
    /\ tchildFds = [t \in Threads |-> {}]
    /\ tchildMarks = [t \in Threads |-> {}]
    /\ fpc = "drop"

\* What the forked child's steps leave alone.
forkedFrame == <<platform, cfg, argv, cmdline, delay, remaining, sleeps,
                 concVars, handleVars, fdVars, sig, callVars, comm>>

\* Line 277: mem::drop(exec_fail_pipe.0).
ForkedDrop ==
    /\ fpc = "drop"
    /\ childFds' = childFds \ {EF_R}
    /\ fpc' = "stdin"
    /\ UNCHANGED <<forkedFrame, child, childStatus, efPipe, execErr>>

\* The statement of do_exec after the dup2 for stream s.
ForkedAfter(s) ==
    CASE s = "stdin" -> "stdout"
      [] s = "stdout" -> "stderr"
      [] s = "stderr" -> "execvp"

\* do_exec, lines 365-373: posix::dup2(fd, n)? for a child end that is
\* Some; its failure returns the error from do_exec.
ForkedDup2 ==
    /\ fpc \in Streams
    /\ IF child_ends[fpc] = NoFd
       THEN /\ fpc' = ForkedAfter(fpc)
            /\ UNCHANGED execErr
       ELSE \E e \in ChildErrors \cup {0} :
              IF e = 0
              THEN /\ fpc' = ForkedAfter(fpc)
                   /\ UNCHANGED execErr
              ELSE /\ fpc' = "report"
                   /\ execErr' = e
    /\ UNCHANGED <<forkedFrame, child, childStatus, childFds, efPipe>>

\* do_exec, line 374: posix::execvp(&argv[0], &argv).  Indexing an empty
\* argv panics; a successful exec closes the close-on-exec descriptors and
\* runs the program; a failed one returns its error.
ForkedExecvp ==
    /\ fpc = "execvp"
    /\ IF Len(argv) = 0
       THEN /\ fpc' = "unwinding"
            /\ UNCHANGED <<child, childFds, execErr>>
       ELSE \E e \in ChildErrors \cup {0} :
              IF e = 0
              THEN /\ fpc' = "exec"
                   /\ child' = "running"
                   /\ childFds' = (childFds \ cloexec) \cup GivenEnds
                   /\ UNCHANGED execErr
              ELSE /\ fpc' = "report"
                   /\ execErr' = e
                   /\ UNCHANGED <<child, childFds>>
    /\ UNCHANGED <<forkedFrame, childStatus, efPipe>>

\* Lines 280-287: the error code is formatted and written to
\* exec_fail_pipe.1 with write_all(..).expect("write to error pipe"): a
\* write that fails makes expect panic.
ForkedReport ==
    /\ fpc = "report"
    /\ \E ok \in BOOLEAN :
         IF ok
         THEN /\ efPipe' = ChildErrorReport(execErr)
              /\ fpc' = "_exit"
         ELSE /\ fpc' = "unwinding"
              /\ UNCHANGED efPipe
    /\ UNCHANGED <<forkedFrame, child, childStatus, childFds, execErr>>

\* Line 288: posix::_exit(127).
ForkedExit ==
    /\ fpc = "_exit"
    /\ child' = "zombie"
    /\ childStatus' = Exited(127)
    /\ childFds' = {}
    /\ fpc' = "exited"
    /\ UNCHANGED <<forkedFrame, efPipe, execErr>>

ForkedNext ==
    \/ ForkedDrop
    \/ ForkedDup2
    \/ ForkedExecvp
    \/ ForkedReport
    \/ ForkedExit

SpecForked == ForkedInit /\ [][ForkedNext]_vars

(* ------------------------------------------------------------------ *)
(* Properties of create, the lifecycle calls and drop (Spec).          *)
(* ------------------------------------------------------------------ *)

\* C1: on POSIX, once create has decided its result for a child that was
\* forked, a failure of dup2 / execvp in the child with error code e makes
\* the result Err(IoError(e)) with exactly that e, never Ok; and when the
\* exec succeeded the parent read end of file and the result is Ok.
ExecFailureIsSpawnError ==
    (platform = "posix" /\ child # "none" /\ result.kind \in {"Ok", "Err"}) =>
        IF execErr # 0
        THEN result = [kind |-> "Err", err |-> IoError(execErr)]
        ELSE result.kind = "Ok"

\* create has returned the three-digit error code the child reported.
ExecFailureIsSpawnError_witness ==
    /\ pc = "create_returned"
    /\ execErr = 105
    /\ childStatus = Exited(127)
    /\ result = [kind |-> "Err", err |-> IoError(105)]

\* C4: in every state of the handle, whatever calls were made on it, when
\* exit_status is set then _pid is None.
StatusSetPidCleared == exit_status # NoStatus => pid = "None"

\* A wait has reaped the child and recorded its status.
StatusSetPidCleared_witness ==
    /\ exit_status # NoStatus
    /\ pid = "None"
    /\ ret = Ret("wait", "Ok", exit_status)
    /\ osWait

\* C5: once exit_status is set, no step of any call changes or clears it.
StatusIsTerminal ==
    [][exit_status # NoStatus => exit_status' = exit_status]_vars

\* kill was called on a handle whose exit status had been recorded.
StatusIsTerminal_witness ==
    /\ platform = "posix"
    /\ exit_status # NoStatus
    /\ ret.op = "kill"

\* The fields of the handle stay as they are and no OS wait primitive runs.
NoSideEffect == UNCHANGED handleVars /\ ~osWait'

\* C6: with exit_status set to s, every poll returns Some(s), every wait
\* Ok(s) and every wait_timeout Ok(Some(s)), each without calling an OS wait
\* primitive and without changing a field of the handle.
QueriesAreIdempotent ==
    [][exit_status # NoStatus =>
         /\ (PollPosix \/ PollWin) =>
              (ret' = Ret("poll", "Ok", exit_status) /\ NoSideEffect)
         /\ WaitCall => NoSideEffect
         /\ (pc = "wait" /\ (WaitPosix \/ WaitWin)) =>
              (ret' = Ret("wait", "Ok", exit_status) /\ NoSideEffect)
         /\ WaitTimeoutCall =>
              /\ ret' = Ret("wait_timeout", "Ok", exit_status)
              /\ pc' = "live"
              /\ NoSideEffect]_vars

\* A poll on a windows handle whose status was recorded before returned it
\* without a call to the OS.
QueriesAreIdempotent_witness ==
    /\ platform = "windows"
    /\ exit_status # NoStatus
    /\ ret = Ret("poll", "Ok", exit_status)
    /\ ~osWait

\* C7: after detach on a handle whose exit status was not observed, drop
\* does not wait for the child and does not block: its wait neither goes
\* round its loop without effect nor sits on the handle of a running child.
DetachedDropDoesNotBlock ==
    (detached /\ pc = "drop_wait") =>
        /\ ~spun
        /\ ~(platform = "windows" /\ handle = "Some" /\ child = "running")

\* C8: create with stdin = Merge hands the LogicError back to the caller:
\* no child was spawned, and drop's wait on the instance does not go round
\* its loop forever on the way out of create.
MergeOnStdinIsLogicError ==
    (cfg["stdin"] = "Merge" /\ result.err = LogicError) =>
        /\ child = "none"
        /\ ~(pc = "create_drop_wait" /\ spun)

\* C9: wherever create fails, it returns the error (the drop of the
\* instance does not hang in wait), and when it has returned no pipe end or
\* file of the call is open in the parent.
FailingCreateReturnsAndCloses ==
    /\ result.kind \in {"Failing", "Err"} => ~spun
    /\ pc = "create_returned" => (result.kind = "Err" /\ openFds = {})

EndpointPresentIffPipe ==
    result.kind = "Ok" =>
        \A s \in Streams : (self_streams[s] # NoFd) <=> (cfg[s] = "Pipe")

\* A create succeeded with a File, a Pipe and a Merge among its streams.
EndpointPresentIffPipe_witness ==
    /\ pc = "live"
    /\ result.kind = "Ok"
    /\ cfg = [stdin |-> "File", stdout |-> "Pipe", stderr |-> "Merge"]
    /\ self_streams = [stdin |-> NoFd, stdout |-> ParentEnd("stdout"),
                       stderr |-> NoFd]

\* C12: when the handle's fork / CreateProcess is performed, the parent end
\* of every piped stream is already non-inheritable, and the program the
\* child runs holds no parent end.
ParentEndsNotInherited ==
    [][
        /\ ((Fork \/ WinSpawn) /\ child' # "none") =>
             (\A s \in Streams :
                cfg[s] = "Pipe" => (ParentEnd(s) \in openFds \cap cloexec))
        /\ child' = "running" =>
             (\A s \in Streams : ParentEnd(s) \notin childFds')
    ]_vars

\* A program runs with the child ends of two pipes whose parent ends are
\* open in the parent.
ParentEndsNotInherited_witness ==
    /\ child = "running"
    /\ cfg["stdin"] = "Pipe" /\ cfg["stdout"] = "Pipe"
    /\ {ParentEnd("stdin"), ParentEnd("stdout")} \subseteq openFds
    /\ {ChildEnd("stdin"), ChildEnd("stdout")} \subseteq childFds

\* C13: terminate or kill on a handle whose exit_status is set returns Ok,
\* asks the OS to signal or terminate no process, and leaves every field of
\* the handle as it was.
SignalAfterExitIsNoOp ==
    [][(/\ exit_status # NoStatus
        /\ (TerminatePosix \/ KillPosix \/ TerminateWindows \/ KillWindows))
       => (/\ ret'.kind = "Ok"
           /\ ~osKill'
           /\ sig' = sig
           /\ UNCHANGED handleVars)]_vars

\* kill returned Ok on a unix handle whose status was recorded, without a
\* call to posix::kill.
SignalAfterExitIsNoOp_witness ==
    /\ platform = "posix"
    /\ exit_status # NoStatus
    /\ child = "reaped"
    /\ ret = Ret("kill", "Ok", NoStatus)
    /\ ~osKill

PollReportsTermination ==
    [][(PollPosix \/ PollWin) =>
         IF child = "running"
         THEN ret' = Ret("poll", "Ok", NoStatus)
         ELSE ret' = Ret("poll", "Ok", childStatus)]_vars

ChosenEnd(s) ==
    CASE cfg[s] = "Pipe" -> ChildEnd(s)
      [] cfg[s] = "File" -> FileOf(s)
      [] OTHER -> StdClone(s)

\* C22: with exactly one of stdout and stderr merged, once the merge is
\* resolved the child end of the merged stream is a duplicate of the child
\* end of the other stream, which is that stream's own pipe, file or clone
\* of the parent's stream; the running child holds both.
MergeDuplicatesChosenEnd ==
    \A dst \in Outputs :
        LET src == MergedInto(dst)
        IN  (/\ cfg[dst] = "Merge" /\ cfg[src] # "Merge"
             /\ (pc = "spawn" \/ child = "running")) =>
                /\ child_ends[src] = ChosenEnd(src)
                /\ child_ends[dst] # child_ends[src]
                /\ OpenFileOf(child_ends[dst]) = child_ends[src]
                /\ child = "running" =>
                     {child_ends[src], child_ends[dst]} \subseteq childFds

\* stdout = File(f), stderr = Merge: the running child's stdout and stderr
\* are both f.
MergeDuplicatesChosenEnd_witness ==
    /\ child = "running"
    /\ cfg["stdout"] = "File" /\ cfg["stderr"] = "Merge"
    /\ child_ends["stdout"] = FileOf("stdout")
    /\ OpenFileOf(child_ends["stderr"]) = FileOf("stdout")
    /\ {child_ends["stdout"], child_ends["stderr"]} \subseteq childFds

\* C24: on unix a wait() called on a running child never returns the
\* interruption of its OS wait to the caller: an interrupted wait is entered
\* again.
WaitAbsorbsInterruption ==
    ~(/\ pc = "live" /\ child = "running"
      /\ ret.op = "wait" /\ ret.kind = "Err" /\ ret.st = Interrupted)

\* C25: windows terminate / kill that calls TerminateProcess: on a process
\* that has ended it does not return access-denied, and when it returns Ok
\* the handle holds Exited(code) with pid and process handle cleared; when it
\* returns an error, pid, handle and exit_status are unchanged, and so they
\* are when it terminated a running process.
TerminateRaceRecovered ==
    [][
        ((TerminateWindows \/ KillWindows) /\ osKill') =>
            /\ child = "zombie" => ret' # Ret(ret'.op, "Err", AccessDenied)
            /\ (child = "zombie" /\ ret'.kind = "Ok") =>
                 (/\ exit_status' = childStatus
                  /\ exit_status'[1] = "Exited"
                  /\ pid' = "None" /\ handle' = "None" /\ ~handleOpen')
            /\ (child = "running" \/ ret'.kind = "Err") =>
                 UNCHANGED <<pid, handle, handleOpen, exit_status>>
            /\ ret'.kind = "Err" => ret'.st # NoStatus
    ]_vars

\* terminate met a process that had ended with code 13 and recorded it.
TerminateRaceRecovered_witness ==
    /\ platform = "windows"
    /\ ret = Ret("terminate", "Ok", NoStatus)
    /\ osKill
    /\ exit_status = Exited(13)
    /\ pid = "None" /\ handle = "None" /\ ~handleOpen

\* C27: after create has returned Ok the only descriptors of the streams
\* that are open in the parent are the parent ends stored in the handle: no
\* child end of a pipe, no File target, no clone and no merge duplicate.
ParentHoldsNoChildEnd ==
    result.kind = "Ok" =>
        /\ \A fd \in openFds :
             fd[1] = "parent_end" /\ self_streams[fd[2]] = fd
        /\ openFds \cap GivenEnds = {}

\* create returned Ok for a pipe, a File and a merge duplicate of the File;
\* the running child holds all three child ends, the parent the pipe's
\* parent end only.
ParentHoldsNoChildEnd_witness ==
    /\ result.kind = "Ok"
    /\ pc = "live"
    /\ child = "running"
    /\ cfg = [stdin |-> "Pipe", stdout |-> "File", stderr |-> "Merge"]
    /\ openFds = {ParentEnd("stdin")}
    /\ {ChildEnd("stdin"), FileOf("stdout"), TryClone(FileOf("stdout"))}
         \subseteq childFds

\* C28: in the loop of unix wait_timeout the first sleep lasts 0.5 ms and
\* each later one twice the one before, each cut down to 100 ms and to the
\* time that remains until the deadline; no sleep is empty.
BackoffSleepLengths ==
    [][
        (BackoffStep /\ sleeps' = sleeps + 1) =>
            /\ delay' = Min(IF sleeps = 0 THEN InitialDelay ELSE delay * 2,
                            Min(remaining, MaxDelay))
            /\ delay' > 0
    ]_vars

\* C30: on windows the process handle is closed at most once and is open
\* exactly while ext_data.handle holds it; when the Popen is dropped it has
\* been closed once, or never existed if create failed; and a wait or
\* terminate primitive is invoked only on an open handle.
HandleClosedExactlyOnce ==
    [][
        platform = "windows" =>
            /\ handleCloses' <= 1
            /\ handleOpen' <=> (handle' = "Some" /\ handleCloses' = 0)
            /\ pc' = "dropped" => (~handleOpen' /\ handleCloses' = 1)
            /\ pc' = "create_returned" => (~handleOpen' /\ handleCloses' = 0)
            /\ ((PollWin \/ WaitWin \/ WaitTimeoutWin) /\ osWait') => handleOpen
            /\ ((TerminateWindows \/ KillWindows) /\ osKill') => handleOpen
    ]_vars

\* The handle was detached, a wait closed the process handle, and the Popen
\* was dropped without closing it again.
HandleClosedExactlyOnce_witness ==
    /\ platform = "windows"
    /\ pc = "dropped"
    /\ detached
    /\ exit_status # NoStatus
    /\ handleCloses = 1

(* ------------------------------------------------------------------ *)
(* Properties of communicate_bytes (SpecComm, FairSpecComm).           *)
(* ------------------------------------------------------------------ *)

AllPiped == \A s \in Streams : cfg[s] = "Pipe"

\* C2: with all three streams piped, more input than a pipe holds and more
\* stderr output than a pipe holds, communicate_bytes(Some(input))
\* eventually returns when every thread and the child are scheduled.
CommunicateReturns ==
    (AllPiped /\ input_some /\ Len(input_data) > PipeCap /\ cerrLeft > PipeCap)
        ~> (wpc = "returned")

\* The writer sits on a full stdin pipe while the child sits in a write to
\* its full stderr pipe: only the reader of stderr can move.
CommunicateReturns_witness ==
    /\ AllPiped
    /\ wpc = "write"
    /\ written < Len(input_data)
    /\ Len(pipebuf["stdin"]) = PipeCap
    /\ cpc = "erring"
    /\ Len(pipebuf["stderr"]) = PipeCap

\* C3: with stdin and stdout piped and a child that copies its stdin to its
\* stdout, communicate_bytes(Some(b)) returns Ok with Some(b) as its first
\* component.
EchoRoundTrip ==
    (wpc = "returned" /\ cfg["stdin"] = "Pipe" /\ cfg["stdout"] = "Pipe") =>
        /\ comm_result.kind = "Ok"
        /\ comm_result.out = [some |-> TRUE, bytes |-> input_data]

\* An input longer than the pipe, of bytes that differ, came back whole.
EchoRoundTrip_witness ==
    /\ wpc = "returned"
    /\ cfg["stdin"] = "Pipe"
    /\ cfg["stdout"] = "Pipe"
    /\ Len(input_data) > PipeCap
    /\ input_data[1] # input_data[2]
    /\ comm_result.out.bytes = input_data

\* C17: once communicate_bytes is past its checks, a call that passed
\* Some(input) with stdin not piped has panicked, and so has (or is about
\* to, the panic unwinding) a call that passed None with stdin piped: input
\* is never silently ignored.
InputPreconditionsAsserted ==
    wpc # "idle" =>
        /\ (cfg["stdin"] # "Pipe" /\ input_some) => wpc = "panicked"
        /\ (cfg["stdin"] = "Pipe" /\ ~input_some) =>
              wpc \in {"unwind", "panicked"}

\* C18: when communicate_bytes has returned, with Ok or with Err, the
\* handle's stdin, stdout and stderr are all None.
ReturnedEndpointsDropped ==
    wpc = "returned" => \A s \in Streams : self_streams[s] = NoFd

\* The call takes the scoped arm with at least one worker and one more
\* transfer: two or three streams are piped.
SeveralPiped == Cardinality({s \in Streams : cfg[s] = "Pipe"}) >= 2

\* C19: with two or three streams piped, communicate_bytes has returned only
\* when no reader worker it spawned is still running, whether the transfers
\* succeeded or the write or a read failed.
NoReturnBeforeWorkersFinish ==
    (SeveralPiped /\ wpc = "returned") =>
        \A s \in Outputs : rpc[s] # "reading"

\* The write to stdin failed (stdin is still held), both workers were
\* started, and the call has returned.
NoReturnBeforeWorkersFinish_witness ==
    /\ wpc = "returned"
    /\ comm_result.kind = "Err"
    /\ cfg["stdin"] = "Pipe" /\ self_streams["stdin"] # NoFd
    /\ \A s \in Outputs : cfg[s] = "Pipe" /\ rpc[s] = "failed"

\* C20: communicate_bytes returns Err exactly when the write to stdin or a
\* read of stdout or stderr failed; when it returns Ok, every piped output
\* was read to end of file and is returned whole.
TransferFailureReturnsErr ==
    [][
        (CommJoin /\ wpc' = "returned") =>
            /\ (comm_result'.kind = "Err") <=>
                 (wpc = "join_err" \/ \E s \in Outputs : rpc[s] = "failed")
            /\ (comm_result'.kind = "Ok") =>
                 (/\ \A s \in Outputs : cfg[s] = "Pipe" => rpc[s] = "done"
                  /\ comm_result'.out = Captured("stdout")
                  /\ comm_result'.err = Captured("stderr"))
    ]_vars

\* The read of stdout failed after the read of stderr had returned the
\* child's bytes, and the call returned Err.
TransferFailureReturnsErr_witness ==
    /\ wpc = "returned"
    /\ comm_result.kind = "Err"
    /\ rpc["stdout"] = "failed"
    /\ rpc["stderr"] = "done" /\ contents["stderr"] # <<>>

\* The bytes the child wrote to its descriptors fds, in the order it wrote
\* them when they share one open file.
WritesTo(fds) ==
    LET sel == SelectSeq(cwrote["stdout"] \o cwrote["stderr"],
                         LAMBDA w : w[1] \in fds)
    IN  [i \in 1..Len(sel) |-> sel[i][2]]

\* C21: a communicate_bytes that returns Ok returns Some in the stdout
\* position exactly when the stdout endpoint was present at the call, Some
\* in the stderr position exactly when the stderr endpoint was, and a Some
\* holds every byte the child wrote to that stream, the child having closed
\* it.
SuccessReturnsPipedOutputs ==
    (wpc = "returned" /\ comm_result.kind = "Ok") =>
        /\ comm_result.out.some <=> (cfg["stdout"] = "Pipe")
        /\ comm_result.err.some <=> (cfg["stderr"] = "Pipe")
        /\ comm_result.out.some =>
             (/\ comm_result.out.bytes = WritesTo({"stdout"})
              /\ child_ends["stdout"] \notin childFds)
        /\ comm_result.err.some =>
             (/\ comm_result.err.bytes = WritesTo({"stderr"})
              /\ child_ends["stderr"] \notin childFds)

\* stdout was piped and stderr was not: the call returned the child's output
\* and None, although the child wrote to its stderr too.
SuccessReturnsPipedOutputs_witness ==
    /\ wpc = "returned"
    /\ comm_result.kind = "Ok"
    /\ cfg["stdout"] = "Pipe" /\ cfg["stderr"] = "None"
    /\ Len(comm_result.out.bytes) > PipeCap
    /\ ~comm_result.err.some
    /\ WritesTo({"stderr"}) # <<>>

\* C23: with stdout piped and stderr merged into it the handle has no
\* stderr endpoint, and the bytes read from the stdout endpoint, followed by
\* those still in the pipe, are the child's writes to fd 1 and fd 2 in the
\* order it made them; a call that returns Ok returns all of them.
MergedOutputInOrder ==
    (cfg["stdout"] = "Pipe" /\ cfg["stderr"] = "Merge") =>
        /\ self_streams["stderr"] = NoFd
        /\ contents["stdout"] \o pipebuf["stdout"]
             = WritesTo({"stdout", "stderr"})
        /\ (wpc = "returned" /\ comm_result.kind = "Ok") =>
             /\ comm_result.out
                  = [some |-> TRUE, bytes |-> WritesTo({"stdout", "stderr"})]
             /\ comm_result.err = NoOutput

\* The child wrote to fd 2 between two writes to fd 1 and the call returned
\* the three bytes in that order.
MergedOutputInOrder_witness ==
    /\ cfg["stdout"] = "Pipe" /\ cfg["stderr"] = "Merge"
    /\ wpc = "returned"
    /\ Len(cwrote["stdout"]) >= 3
    /\ cwrote["stdout"][1][1] = "stdout"
    /\ cwrote["stdout"][2][1] = "stderr"
    /\ cwrote["stdout"][3][1] = "stdout"
    /\ comm_result.out.bytes = WritesTo({"stdout", "stderr"})

(* ------------------------------------------------------------------ *)
(* Properties of assemble_cmdline (SpecCmdline).                       *)
(* ------------------------------------------------------------------ *)

\* The reference encoding of one argument: as it is when it holds no
\* whitespace and no quote; otherwise between double quotes, a quote written
\* as backslash quote, and a backslash doubled when the backslashes it
\* stands among are followed by a quote or end the argument.
RefChar(arg, i) ==
    LET after == i + RunLen(arg, i)
    IN  IF arg[i] = Quote THEN <<Backslash, Quote>>
        ELSE IF arg[i] = Backslash
                /\ (after > Len(arg) \/ arg[after] = Quote)
        THEN <<Backslash, Backslash>>
        ELSE <<arg[i]>>

RECURSIVE RefBody(_, _)
RefBody(arg, i) ==
    IF i > Len(arg) THEN <<>> ELSE RefChar(arg, i) \o RefBody(arg, i + 1)

RefArg(arg) ==
    IF \A i \in 1..Len(arg) : arg[i] \notin {Space, Quote} THEN arg
    ELSE <<Quote>> \o RefBody(arg, 1) \o <<Quote>>

\* The encoded arguments joined by single spaces.
RECURSIVE RefCmdline(_)
RefCmdline(args) ==
    IF args = <<>> THEN <<>>
    ELSE IF Len(args) = 1 THEN RefArg(args[1])
    ELSE RefArg(Head(args)) \o <<Space>> \o RefCmdline(Tail(args))

\* C26: the command line assemble_cmdline builds is the reference encoding
\* of argv: nothing before the first argument, one space between arguments,
\* nothing after the last.
CmdlineIsReferenceEncoding ==
    pc = "assembled" => cmdline = RefCmdline(argv)

\* The Windows rules for splitting a command line, from position i on: cur
\* is the argument being collected (inArg: one is), inQuote whether a quoted
\* part is open, acc the arguments complete so far.
RECURSIVE SplitFrom(_, _, _, _, _, _)
SplitFrom(cmd, i, cur, inArg, inQuote, acc) ==
    IF i > Len(cmd) THEN (IF inArg THEN Append(acc, cur) ELSE acc)
    ELSE IF cmd[i] = Backslash
    THEN LET n == RunLen(cmd, i)
             j == i + n
         IN  IF j <= Len(cmd) /\ cmd[j] = Quote
             THEN IF n % 2 = 0
                  THEN SplitFrom(cmd, j + 1, cur \o Rep(Backslash, n \div 2),
                                 TRUE, ~inQuote, acc)
                  ELSE SplitFrom(cmd, j + 1,
                                 cur \o Rep(Backslash, n \div 2) \o <<Quote>>,
                                 TRUE, inQuote, acc)
             ELSE SplitFrom(cmd, j, cur \o Rep(Backslash, n), TRUE, inQuote,
                            acc)
    ELSE IF cmd[i] = Quote
    THEN SplitFrom(cmd, i + 1, cur, TRUE, ~inQuote, acc)
    ELSE IF cmd[i] = Space /\ ~inQuote
    THEN SplitFrom(cmd, i + 1, <<>>, FALSE, FALSE,
                   IF inArg THEN Append(acc, cur) ELSE acc)
    ELSE SplitFrom(cmd, i + 1, Append(cur, cmd[i]), TRUE, inQuote, acc)

SplitCmdline(cmd) == SplitFrom(cmd, 1, <<>>, FALSE, FALSE, <<>>)

\* C29: splitting the command line that assemble_cmdline built from argv by
\* the Windows rules gives argv back.
CmdlineRoundTrip ==
    pc = "assembled" => SplitCmdline(cmdline) = argv

\* An empty argument followed by one that holds a quote and ends in a
\* backslash came back.
CmdlineRoundTrip_witness ==
    /\ pc = "assembled"
    /\ argv = << <<>>, <<Quote, Ordinary, Backslash>> >>
    /\ SplitCmdline(cmdline) = argv


(* ------------------------------------------------------------------ *)
(* Properties of the windows wait, of double merges, of concurrent     *)
(* creates and of the forked child.                                    *)
(* ------------------------------------------------------------------ *)

\* C31: on windows a poll, wait or wait_timeout that finds the process
\* signalled and then fails to obtain an exit status leaves the pid and the
\* process handle of the Popen as they were, so that a later wait can still
\* obtain the status.
FailedExitCodeQueryKeepsHandle ==
    [][((PollWin \/ WaitWin \/ WaitTimeoutWin)
            /\ handle = "Some" /\ child = "zombie"
            /\ exit_status' = NoStatus) =>
         (pid' = pid /\ handle' = handle)]_vars


\* C32: with stdout and stderr both Merge (and stdin not Merge),
\* make_child_streams returns no LogicError, the handle stores no parent end
\* for stdout or stderr, and once the merge is resolved both child ends
\* refer to the parent's standard output: stdout is a clone of it and stderr
\* a duplicate of that clone; neither refers to the parent's standard error.
DoubleMergeGoesToParentStdout ==
    (/\ cfg["stdout"] = "Merge" /\ cfg["stderr"] = "Merge"
     /\ cfg["stdin"] # "Merge") =>
        /\ result.err # LogicError
        /\ self_streams["stdout"] = NoFd /\ self_streams["stderr"] = NoFd
        /\ (pc = "spawn" \/ child = "running") =>
              /\ merge = "OutToErr"
              /\ child_ends["stdout"] = StdClone("stdout")
              /\ child_ends["stderr"] # child_ends["stdout"]
              /\ OpenFileOf(child_ends["stderr"]) = StdClone("stdout")
              /\ \A t \in Outputs :
                    OpenFileOf(child_ends[t]) # StdClone("stderr")

\* create succeeded with both outputs Merge: the running child's stdout and
\* stderr are the parent's standard output.
DoubleMergeGoesToParentStdout_witness ==
    /\ cfg["stdout"] = "Merge" /\ cfg["stderr"] = "Merge"
    /\ child = "running"
    /\ result.kind = "Ok"
    /\ OpenFileOf(child_ends["stdout"]) = StdClone("stdout")
    /\ OpenFileOf(child_ends["stderr"]) = StdClone("stdout")
    /\ self_streams["stdout"] = NoFd /\ self_streams["stderr"] = NoFd


\* The pipe ends that belong to the handle a thread creates: the parent
\* ends of its streams and the two ends of its exec-failure pipe.
HandleEnds == {EF_R, EF_W} \cup {ParentEnd(s) : s \in Streams}

\* C33: when two threads create handles concurrently, the program that one
\* thread's child runs after its exec holds no pipe end of the other
\* thread's handle, in every interleaving of the two creates.
NoCrossInheritance ==
    \A t \in Threads : \A u \in Threads \ {t} :
        tchild[t] = "running" =>
            \A f \in tchildFds[t] : f[1] = u => f[2] \notin HandleEnds


\* C34: the forked child never leaves start by a return or by unwinding
\* into its caller: whatever fails, it ends in the program it exec'ed or in
\* _exit(127).
ForkedChildNeverUnwinds == fpc # "unwinding"

====
